---- MODULE Spec2Model ----
(***************************************************************************)
(* NetMind relay + observability core (src/netmind/core.py, app.py):       *)
(* ProxyEngine (add_proxy / remove_proxy / stop_all_proxies, the health    *)
(* monitor), StateManager (packet_log, subscribers, active_proxies),       *)
(* TCPProxy (listener, handle_client and its two pipes) and the history    *)
(* endpoints of app.py.                                                    *)
(*                                                                         *)
(* Every coroutine is cut at its await points: one action is the code that *)
(* runs between two suspensions of the asyncio event loop, so the actions  *)
(* interleave exactly where the tasks of the program can.                  *)
(***************************************************************************)
EXTENDS Integers, Sequences, FiniteSets, TLC

(***************************************************************************)
(* Bounds of the model.                                                    *)
(***************************************************************************)
\* TCPProxy objects ever constructed with a successful bind.
MaxObj == 2
\* remove_proxy calls suspended in close() of one TCPProxy at the same time.
MaxCalls == 2

\* Capacity of packet_log in the model; the program's deque has maxlen=2000.
PacketLogMaxlen == 2
\* Capacity of a subscriber queue in the model; the program's asyncio.Queue
\* has maxsize=100.
QueueMaxsize == 2
\* PacketEvents ever created.
MaxEvents == 4
\* Subscriber queues ever created.
MaxQueues == 2
\* StatusEvents ever broadcast.
MaxStatusEvents == 3
\* _monitor_loop tasks ever created.
MaxTasks == 3
\* Bytes read by one reader.read in the model; the program reads up to 4096.
ChunkSize == 2
\* Length of the byte sequence a client sends on one connection.
MaxMsgLen == 3
\* Longest chunk that is decoded over the whole alphabet.
MaxDecodeLen == 3

\* Listen ports callers pass as local_port.
Ports == {1, 2}
\* (name, target, protocol) arguments callers pass to add_proxy.
Profiles ==
    { [name |-> "a", target |-> "t1", protocol |-> "raw"],
      [name |-> "b", target |-> "t2", protocol |-> "hamlib"] }

\* Python's None.
None == "None"
\* Callers of stop_monitor that may overlap: two direct callers and shutdown.
StopCallers == {"s1", "s2"}
LifeCallers == StopCallers \cup {"shutdown"}
\* Client connections the model follows.
Conns == {1, 2}
\* Values of str(uuid.uuid4())[:8]; two connections may draw the same one.
ConnIds == {"c1", "c2"}

VARIABLES
    obj,             \* the TCPProxy objects constructed so far, each with its ProxyConfig
    proxies,         \* ProxyEngine.proxies: list of TCPProxy (ids into obj)
    active_proxies,  \* StateManager.active_proxies: local_port -> ProxyConfig (id into obj, 0 = no key)
    starting,        \* add_proxy calls suspended in start_server after the bind
    closing,         \* per TCPProxy: remove_proxy calls suspended in close()
    stopAll,         \* the stop_all_proxies call in progress, if any
    ret,             \* outcome of the last engine call that returned or raised
    nRemoveOK,       \* per port: remove_proxy calls that returned normally
    packet_log,      \* StateManager.packet_log: the bounded deque of PacketEvents
    subscribers,     \* StateManager.subscribers: list of asyncio.Queue (ids into queue)
    queue,           \* the asyncio.Queues created by subscribe(), each its list of items
    logged,          \* every PacketEvent ever appended to packet_log, in order
    history,         \* the last answer of a history endpoint of app.py
    monitor_task,    \* ProxyEngine._monitor_task (id into mon, 0 = None)
    mon,             \* the _monitor_loop tasks created so far, each where it is suspended
    statusEvents,    \* every StatusEvent ever handed to broadcast, with the TCPProxy probed
    lastProbe,       \* outcome of the last _check_proxy_health that completed
    conn,            \* the client connections: handle_client, its two pipes, the sockets
    dropped,         \* chunks whose log_packet call found no config and returned
    cancelled,       \* _monitor_loop tasks whose cancel() was called and not yet delivered
    stopWait         \* per caller: the task its stop_monitor awaits (0 = not suspended)

engineVars == <<obj, proxies, active_proxies, starting, closing, stopAll>>
histVars == <<ret, nRemoveOK>>
busVars == <<packet_log, subscribers, queue, logged>>
\* What the registry operations never touch, and what the bus operations never touch.
monVars == <<monitor_task, mon, statusEvents, lastProbe>>
connVars == <<conn, dropped>>
lifeVars == <<cancelled, stopWait>>
notEngine ==
    <<packet_log, subscribers, queue, logged, history,
      monitor_task, mon, statusEvents, lastProbe, conn, dropped,
      cancelled, stopWait>>
notBus ==
    <<obj, proxies, active_proxies, starting, closing, stopAll, ret, nRemoveOK,
      monitor_task, mon, statusEvents, lastProbe, conn, dropped,
      cancelled, stopWait>>
vars ==
    <<obj, proxies, active_proxies, starting, closing, stopAll, ret, nRemoveOK,
      packet_log, subscribers, queue, logged, history,
      monitor_task, mon, statusEvents, lastProbe, conn, dropped,
      cancelled, stopWait>>

(***************************************************************************)
(* Helpers on Python lists.                                                *)
(***************************************************************************)
Range(s) == { s[i] : i \in 1..Len(s) }

\* list.remove(x): delete the first element equal to x.
RECURSIVE ListRemove(_, _)
ListRemove(s, x) ==
    IF s = <<>> THEN <<>>
    ELSE IF Head(s) = x THEN Tail(s)
    ELSE <<Head(s)>> \o ListRemove(Tail(s), x)

(***************************************************************************)
(* TCPProxy / ProxyConfig                                                  *)
(***************************************************************************)
\* ProxyConfig(local_port, target_host, target_port, name, protocol) with the
\* dataclass defaults status = "unknown", error_msg = None, held by a TCPProxy
\* whose server is listening.
NewProxy(p, prof) ==
    [ local_port |-> p, target |-> prof.target, name |-> prof.name,
      protocol |-> prof.protocol, status |-> "unknown", error_msg |-> None,
      server |-> "open" ]

\* The OS refuses a bind on a port that has a listening socket.
PortBound(p) ==
    \E id \in 1..Len(obj) : obj[id].local_port = p /\ obj[id].server = "open"

\* First TCPProxy of engine.proxies whose config.local_port is p (0: none),
\* as the for loop of remove_proxy finds it.
FindProxy(p) ==
    LET hits == { i \in 1..Len(proxies) : obj[proxies[i]].local_port = p }
    IN IF hits = {} THEN 0
       ELSE proxies[CHOOSE i \in hits : \A j \in hits : i <= j]

\* ProxyEngine(): no proxy, no call in progress.
InitEngine ==
    /\ obj = <<>>
    /\ proxies = <<>>
    /\ active_proxies = [p \in Ports |-> 0]

InitCalls ==
    /\ starting = {}
    /\ closing = [id \in 1..MaxObj |-> 0]
    /\ stopAll = [state |-> "idle", todo |-> {}, owner |-> "none"]
    /\ ret = [op |-> "none", port |-> 0, res |-> "none"]
    /\ nRemoveOK = [p \in Ports |-> 0]

\* StateManager(): empty log, no subscriber.
InitBusState ==
    /\ packet_log = <<>>
    /\ subscribers = <<>>
    /\ queue = <<>>
    /\ logged = <<>>
    /\ history = [limit |-> 0, proxy_name |-> None, result |-> <<>>, called |-> FALSE]

\* ProxyEngine(): _monitor_task = None.
InitMonitor ==
    /\ monitor_task = 0
    /\ mon = <<>>
    /\ statusEvents = <<>>
    /\ lastProbe = [proxy |-> 0, status |-> "none", error_msg |-> None]
    /\ cancelled = {}
    /\ stopWait = [s \in LifeCallers |-> 0]

\* A connection slot no client has used.
FreeConn ==
    [ state |-> "free", proxy |-> 0, conn_id |-> None, tx |-> "idle", rx |-> "idle",
      csock |-> "closed", rsock |-> "closed", ceof |-> FALSE, events |-> <<>>,
      sent |-> <<>>, cbuf |-> <<>>, dgot |-> <<>>, dpend |-> <<>>, dbuf |-> <<>>,
      cout |-> <<>> ]

\* No client has connected.
InitConns ==
    /\ conn = [c \in Conns |-> FreeConn]
    /\ dropped = 0

Init == InitEngine /\ InitCalls /\ InitBusState /\ InitMonitor /\ InitConns

(***************************************************************************)
(* ProxyEngine.add_proxy                                                   *)
(***************************************************************************)
\* add_proxy up to the bind inside asyncio.start_server (TCPProxy.start).
\* The bind raises OSError (EADDRINUSE) when the port has a listener; the
\* exception leaves add_proxy before register_proxy and proxies.append.
AddBindFails(p) ==
    /\ PortBound(p)
    /\ ret' = [op |-> "add_proxy", port |-> p, res |-> "OSError"]
    /\ UNCHANGED <<engineVars, nRemoveOK, notEngine>>

\* Why the OS refuses a bind on a port that no TCPProxy listens on: another
\* process holds it, or the process may not bind it.
BindCauses == {"EADDRINUSE", "EACCES"}

\* The exception class that OSError(err.errno, msg) of create_server yields.
BindError(cause) == IF cause = "EACCES" THEN "PermissionError" ELSE "OSError"

\* start_server raises for a cause outside the engine; as in AddBindFails
\* the exception leaves add_proxy before register_proxy and proxies.append.
AddBindRefused(p, cause) ==
    /\ ~PortBound(p)
    /\ ret' = [op |-> "add_proxy", port |-> p, res |-> BindError(cause)]
    /\ UNCHANGED <<engineVars, nRemoveOK, notEngine>>

AddBind(p, prof) ==
    /\ ~PortBound(p)
    /\ Len(obj) < MaxObj
    /\ obj' = Append(obj, NewProxy(p, prof))
    /\ starting' = starting \cup {Len(obj) + 1}
    /\ UNCHANGED <<proxies, active_proxies, closing, stopAll, histVars, notEngine>>

\* The rest of TCPProxy.start and of add_proxy, run without suspension once
\* start_server returns: register_proxy(config), then proxies.append(proxy).
AddRegister(id) ==
    /\ id \in starting
    /\ starting' = starting \ {id}
    /\ active_proxies' = [active_proxies EXCEPT ![obj[id].local_port] = id]
    /\ proxies' = Append(proxies, id)
    /\ ret' = [op |-> "add_proxy", port |-> obj[id].local_port, res |-> "ok"]
    /\ UNCHANGED <<obj, closing, stopAll, nRemoveOK, notEngine>>

(***************************************************************************)
(* ProxyEngine.remove_proxy                                                *)
(***************************************************************************)
\* The for loop finds no proxy on the port: raise ValueError.
RemoveNotFound(p) ==
    /\ FindProxy(p) = 0
    /\ ret' = [op |-> "remove_proxy", port |-> p, res |-> "ValueError"]
    /\ UNCHANGED <<engineVars, nRemoveOK, notEngine>>

\* A remove_proxy whose close() also ends the handlers of the relay's
\* connections and closes their sockets.
RemoveBegin_CancelsPipes(p) ==
    LET id == FindProxy(p) IN
    /\ id # 0
    /\ closing[id] < MaxCalls
    /\ obj' = [obj EXCEPT ![id].server = "closed"]
    /\ closing' = [closing EXCEPT ![id] = @ + 1]
    /\ conn' = [c \in DOMAIN conn |->
                  IF conn[c].state \in {"dial", "piping"} /\ conn[c].proxy = id
                  THEN [conn[c] EXCEPT !.state = "done", !.tx = "done", !.rx = "done",
                                       !.csock = "closed", !.rsock = "closed"]
                  ELSE conn[c]]
    /\ UNCHANGED <<proxies, active_proxies, starting, stopAll, histVars,
                   packet_log, subscribers, queue, logged, history,
                   monitor_task, mon, statusEvents, lastProbe, dropped, cancelled, stopWait>>

\* The for loop finds the proxy and enters proxy.close(): server.close()
\* closes the listening socket at once, then close() suspends (wait_closed,
\* the cancelled serve_task).
RemoveBegin(p) ==
    LET id == FindProxy(p) IN
    /\ id # 0
    /\ closing[id] < MaxCalls
    /\ obj' = [obj EXCEPT ![id].server = "closed"]
    /\ closing' = [closing EXCEPT ![id] = @ + 1]
    /\ UNCHANGED <<proxies, active_proxies, starting, stopAll, histVars, notEngine>>

\* remove_proxy with proxies.remove(proxy) made forgiving: a proxy that is
\* no longer in the list is skipped and the call still succeeds.
RemoveFinishBody_NoRaise(id) ==
    LET p == obj[id].local_port IN
    /\ proxies' = ListRemove(proxies, id)
    /\ active_proxies' = [active_proxies EXCEPT ![p] = 0]
    /\ ret' = [op |-> "remove_proxy", port |-> p, res |-> "ok"]
    /\ nRemoveOK' = [nRemoveOK EXCEPT ![p] = @ + 1]

\* close() returned: proxies.remove(proxy) (ValueError when the proxy is no
\* longer in the list), then del active_proxies[local_port] if the key is
\* there, whichever config it maps to.
RemoveFinishBody(id) ==
    LET p == obj[id].local_port IN
    IF id \in Range(proxies)
    THEN /\ proxies' = ListRemove(proxies, id)
         /\ active_proxies' = [active_proxies EXCEPT ![p] = 0]
         /\ ret' = [op |-> "remove_proxy", port |-> p, res |-> "ok"]
         /\ nRemoveOK' = [nRemoveOK EXCEPT ![p] = @ + 1]
    ELSE /\ ret' = [op |-> "remove_proxy", port |-> p, res |-> "ValueError"]
         /\ UNCHANGED <<proxies, active_proxies, nRemoveOK>>

RemoveFinish(id) ==
    /\ id \in 1..Len(obj)
    /\ closing[id] > 0
    /\ closing' = [closing EXCEPT ![id] = @ - 1]
    /\ RemoveFinishBody(id)
    /\ UNCHANGED <<obj, starting, stopAll, notEngine>>

(***************************************************************************)
(* ProxyEngine.stop_all_proxies                                            *)
(***************************************************************************)
\* Empty list: return at once. Otherwise one close() task per proxy of the
\* list is handed to asyncio.gather and the call suspends. owner is the
\* call that returns when stop_all_proxies does: stop_all_proxies itself or
\* the shutdown that called it.
StopAllEnter(owner) ==
    IF proxies = <<>>
    THEN /\ ret' = [op |-> owner, port |-> 0, res |-> "ok"]
         /\ UNCHANGED stopAll
    ELSE /\ stopAll' = [state |-> "gather", todo |-> Range(proxies), owner |-> owner]
         /\ UNCHANGED ret

StopAllBegin ==
    /\ stopAll.state = "idle"
    /\ StopAllEnter("stop_all_proxies")
    /\ UNCHANGED <<obj, proxies, active_proxies, starting, closing, nRemoveOK, notEngine>>

\* One of the gathered close() tasks runs: server.close().
StopAllClose(id) ==
    /\ stopAll.state = "gather"
    /\ id \in stopAll.todo
    /\ obj' = [obj EXCEPT ![id].server = "closed"]
    /\ stopAll' = [stopAll EXCEPT !.todo = @ \ {id}]
    /\ UNCHANGED <<proxies, active_proxies, starting, closing, histVars, notEngine>>

\* A stop_all_proxies that clears the list and forgets the table.
StopAllFinish_KeepTable ==
    /\ stopAll.state = "gather"
    /\ stopAll.todo = {}
    /\ proxies' = <<>>
    /\ stopAll' = [state |-> "idle", todo |-> {}, owner |-> "none"]
    /\ ret' = [op |-> stopAll.owner, port |-> 0, res |-> "ok"]
    /\ UNCHANGED <<obj, active_proxies, starting, closing, nRemoveOK, notEngine>>

\* gather returned: proxies.clear(), active_proxies.clear().
StopAllFinish ==
    /\ stopAll.state = "gather"
    /\ stopAll.todo = {}
    /\ proxies' = <<>>
    /\ active_proxies' = [p \in Ports |-> 0]
    /\ stopAll' = [state |-> "idle", todo |-> {}, owner |-> "none"]
    /\ ret' = [op |-> stopAll.owner, port |-> 0, res |-> "ok"]
    /\ UNCHANGED <<obj, starting, closing, nRemoveOK, notEngine>>

(***************************************************************************)
(* StateManager: packet_log, broadcast, subscribe, unsubscribe             *)
(***************************************************************************)
\* Bytes a chunk is made of: an ASCII letter ("f") and a byte that is never
\* valid in UTF-8 (0xff).
Bytes == {102, 255}

\* data.decode('utf-8', errors='replace') on chunks over Bytes: every 0xff
\* becomes U+FFFD (65533), every ASCII byte its own code point.
DataStr(data) == [i \in 1..Len(data) |-> IF data[i] < 128 THEN data[i] ELSE 65533]

(***************************************************************************)
(* protocols.py: HamlibParser. Text is a sequence of code points, a gloss  *)
(* is the sequence of code points of the returned string.                  *)
(***************************************************************************)
\* The table HamlibParser.PATTERNS. A pattern is the sequence of the items
\* of its regular expression after the anchor: "lit" a literal string,
\* "opt" an optional character (\+?), "plus" one or more characters of a
\* class, "one" a single character of a class; cap marks a capturing group.
PATTERNS ==
    <<
       \* ^\+?F\s+(\d+)  ->  "SET FREQ"
       [ label |-> <<83, 69, 84, 32, 70, 82, 69, 81>>,
         pattern |-> << [k |-> "opt", c |-> <<43>>, cls |-> "", cap |-> FALSE],
                      [k |-> "lit", c |-> <<70>>, cls |-> "", cap |-> FALSE],
                      [k |-> "plus", c |-> <<>>, cls |-> "s", cap |-> FALSE],
                      [k |-> "plus", c |-> <<>>, cls |-> "d", cap |-> TRUE] >> ],
       \* ^\+?f  ->  "GET FREQ"
       [ label |-> <<71, 69, 84, 32, 70, 82, 69, 81>>,
         pattern |-> << [k |-> "opt", c |-> <<43>>, cls |-> "", cap |-> FALSE],
                      [k |-> "lit", c |-> <<102>>, cls |-> "", cap |-> FALSE] >> ],
       \* ^\+?M\s+(\w+)\s+(\d+)  ->  "SET MODE"
       [ label |-> <<83, 69, 84, 32, 77, 79, 68, 69>>,
         pattern |-> << [k |-> "opt", c |-> <<43>>, cls |-> "", cap |-> FALSE],
                      [k |-> "lit", c |-> <<77>>, cls |-> "", cap |-> FALSE],
                      [k |-> "plus", c |-> <<>>, cls |-> "s", cap |-> FALSE],
                      [k |-> "plus", c |-> <<>>, cls |-> "w", cap |-> TRUE],
                      [k |-> "plus", c |-> <<>>, cls |-> "s", cap |-> FALSE],
                      [k |-> "plus", c |-> <<>>, cls |-> "d", cap |-> TRUE] >> ],
       \* ^\+?m  ->  "GET MODE"
       [ label |-> <<71, 69, 84, 32, 77, 79, 68, 69>>,
         pattern |-> << [k |-> "opt", c |-> <<43>>, cls |-> "", cap |-> FALSE],
                      [k |-> "lit", c |-> <<109>>, cls |-> "", cap |-> FALSE] >> ],
       \* ^\+?L\s+(\w+)\s+([\d\.]+)  ->  "SET LEVEL"
       [ label |-> <<83, 69, 84, 32, 76, 69, 86, 69, 76>>,
         pattern |-> << [k |-> "opt", c |-> <<43>>, cls |-> "", cap |-> FALSE],
                      [k |-> "lit", c |-> <<76>>, cls |-> "", cap |-> FALSE],
                      [k |-> "plus", c |-> <<>>, cls |-> "s", cap |-> FALSE],
                      [k |-> "plus", c |-> <<>>, cls |-> "w", cap |-> TRUE],
                      [k |-> "plus", c |-> <<>>, cls |-> "s", cap |-> FALSE],
                      [k |-> "plus", c |-> <<>>, cls |-> "d.", cap |-> TRUE] >> ],
       \* ^\+?l\s+(\w+)  ->  "GET LEVEL"
       [ label |-> <<71, 69, 84, 32, 76, 69, 86, 69, 76>>,
         pattern |-> << [k |-> "opt", c |-> <<43>>, cls |-> "", cap |-> FALSE],
                      [k |-> "lit", c |-> <<108>>, cls |-> "", cap |-> FALSE],
                      [k |-> "plus", c |-> <<>>, cls |-> "s", cap |-> FALSE],
                      [k |-> "plus", c |-> <<>>, cls |-> "w", cap |-> TRUE] >> ],
       \* ^\+?T\s+([01])  ->  "SET PTT"
       [ label |-> <<83, 69, 84, 32, 80, 84, 84>>,
         pattern |-> << [k |-> "opt", c |-> <<43>>, cls |-> "", cap |-> FALSE],
                      [k |-> "lit", c |-> <<84>>, cls |-> "", cap |-> FALSE],
                      [k |-> "plus", c |-> <<>>, cls |-> "s", cap |-> FALSE],
                      [k |-> "one", c |-> <<>>, cls |-> "01", cap |-> TRUE] >> ],
       \* ^\+?t  ->  "GET PTT"
       [ label |-> <<71, 69, 84, 32, 80, 84, 84>>,
         pattern |-> << [k |-> "opt", c |-> <<43>>, cls |-> "", cap |-> FALSE],
                      [k |-> "lit", c |-> <<116>>, cls |-> "", cap |-> FALSE] >> ],
       \* ^\+?\\dump_state  ->  "DUMP STATE"
       [ label |-> <<68, 85, 77, 80, 32, 83, 84, 65, 84, 69>>,
         pattern |-> << [k |-> "opt", c |-> <<43>>, cls |-> "", cap |-> FALSE],
                      [k |-> "lit", c |-> <<92, 100, 117, 109, 112, 95, 115, 116, 97, 116, 101>>, cls |-> "", cap |-> FALSE] >> ],
       \* ^\+?\\dump_caps  ->  "DUMP CAPS"
       [ label |-> <<68, 85, 77, 80, 32, 67, 65, 80, 83>>,
         pattern |-> << [k |-> "opt", c |-> <<43>>, cls |-> "", cap |-> FALSE],
                      [k |-> "lit", c |-> <<92, 100, 117, 109, 112, 95, 99, 97, 112, 115>>, cls |-> "", cap |-> FALSE] >> ],
       \* ^\+?\\get_powerstat  ->  "GET POWERSTAT"
       [ label |-> <<71, 69, 84, 32, 80, 79, 87, 69, 82, 83, 84, 65, 84>>,
         pattern |-> << [k |-> "opt", c |-> <<43>>, cls |-> "", cap |-> FALSE],
                      [k |-> "lit", c |-> <<92, 103, 101, 116, 95, 112, 111, 119, 101, 114, 115, 116, 97, 116>>, cls |-> "", cap |-> FALSE] >> ],
       \* ^\+?\\chk_vfo  ->  "CHECK VFO"
       [ label |-> <<67, 72, 69, 67, 75, 32, 86, 70, 79>>,
         pattern |-> << [k |-> "opt", c |-> <<43>>, cls |-> "", cap |-> FALSE],
                      [k |-> "lit", c |-> <<92, 99, 104, 107, 95, 118, 102, 111>>, cls |-> "", cap |-> FALSE] >> ],
       \* ^\+?\\set_vfo\s+(\w+)  ->  "SET VFO"
       [ label |-> <<83, 69, 84, 32, 86, 70, 79>>,
         pattern |-> << [k |-> "opt", c |-> <<43>>, cls |-> "", cap |-> FALSE],
                      [k |-> "lit", c |-> <<92, 115, 101, 116, 95, 118, 102, 111>>, cls |-> "", cap |-> FALSE],
                      [k |-> "plus", c |-> <<>>, cls |-> "s", cap |-> FALSE],
                      [k |-> "plus", c |-> <<>>, cls |-> "w", cap |-> TRUE] >> ],
       \* ^\+?\\get_vfo  ->  "GET VFO"
       [ label |-> <<71, 69, 84, 32, 86, 70, 79>>,
         pattern |-> << [k |-> "opt", c |-> <<43>>, cls |-> "", cap |-> FALSE],
                      [k |-> "lit", c |-> <<92, 103, 101, 116, 95, 118, 102, 111>>, cls |-> "", cap |-> FALSE] >> ],
       \* ^RPRT\s+0  ->  "SUCCESS"
       [ label |-> <<83, 85, 67, 67, 69, 83, 83>>,
         pattern |-> << [k |-> "lit", c |-> <<82, 80, 82, 84>>, cls |-> "", cap |-> FALSE],
                      [k |-> "plus", c |-> <<>>, cls |-> "s", cap |-> FALSE],
                      [k |-> "lit", c |-> <<48>>, cls |-> "", cap |-> FALSE] >> ],
       \* ^RPRT\s+-(\d+)  ->  "ERROR"
       [ label |-> <<69, 82, 82, 79, 82>>,
         pattern |-> << [k |-> "lit", c |-> <<82, 80, 82, 84>>, cls |-> "", cap |-> FALSE],
                      [k |-> "plus", c |-> <<>>, cls |-> "s", cap |-> FALSE],
                      [k |-> "lit", c |-> <<45>>, cls |-> "", cap |-> FALSE],
                      [k |-> "plus", c |-> <<>>, cls |-> "d", cap |-> TRUE] >> ]
    >>

\* The character classes of the patterns, on ASCII text: \s, \d, \w, [\d\.]
\* and [01]. str.strip() and str.isdigit() use the same whitespace and digits.
InClass(cls, c) ==
    CASE cls = "s" -> c \in {9, 10, 11, 12, 13, 28, 29, 30, 31, 32}
      [] cls = "d" -> c \in 48..57
      [] cls = "w" -> c \in (48..57) \cup (65..90) \cup (97..122) \cup {95}
      [] cls = "d." -> c \in (48..57) \cup {46}
      [] cls = "01" -> c \in {48, 49}
      [] OTHER -> FALSE

\* The length of the longest run of characters of class cls at text[pos].
RECURSIVE RunLen(_, _, _)
RunLen(cls, text, pos) ==
    IF pos <= Len(text) /\ InClass(cls, text[pos])
    THEN 1 + RunLen(cls, text, pos + 1)
    ELSE 0

NoMatch == [ok |-> FALSE, groups |-> <<>>]

\* re.match of the items elems on text from position pos, with the groups
\* captured so far: greedy, with backtracking (the longest run that lets
\* the rest of the pattern match); nothing anchors the end of the text.
RECURSIVE Match(_, _, _, _)
Match(elems, text, pos, groups) ==
    IF elems = <<>>
    THEN [ok |-> TRUE, groups |-> groups]
    ELSE
      LET e == Head(elems)
          rest == Tail(elems)
          Take(n) == Match(rest, text, pos + n,
                           IF e.cap THEN Append(groups, SubSeq(text, pos, pos + n - 1))
                                    ELSE groups)
      IN CASE e.k = "lit" ->
                IF /\ pos + Len(e.c) - 1 <= Len(text)
                   /\ SubSeq(text, pos, pos + Len(e.c) - 1) = e.c
                THEN Match(rest, text, pos + Len(e.c), groups)
                ELSE NoMatch
           [] e.k = "opt" ->
                IF pos <= Len(text) /\ text[pos] = e.c[1] /\ Take(1).ok
                THEN Take(1)
                ELSE Match(rest, text, pos, groups)
           [] e.k = "plus" ->
                LET fits == { n \in 1..RunLen(e.cls, text, pos) : Take(n).ok }
                IN IF fits = {} THEN NoMatch
                   ELSE Take(CHOOSE n \in fits : \A m \in fits : m <= n)
           [] e.k = "one" ->
                IF pos <= Len(text) /\ InClass(e.cls, text[pos])
                THEN Take(1)
                ELSE NoMatch

\* str.strip(): whitespace removed at both ends.
RECURSIVE Strip(_)
Strip(text) ==
    IF text = <<>> THEN text
    ELSE IF InClass("s", Head(text)) THEN Strip(Tail(text))
    ELSE IF InClass("s", text[Len(text)]) THEN Strip(SubSeq(text, 1, Len(text) - 1))
    ELSE text

\* " ".join(match.groups())
RECURSIVE Join(_)
Join(groups) ==
    IF groups = <<>> THEN <<>>
    ELSE IF Len(groups) = 1 THEN groups[1]
    ELSE groups[1] \o <<32>> \o Join(Tail(groups))

\* str(n) of a length.
RECURSIVE Dec(_)
Dec(n) == IF n < 10 THEN <<48 + n>> ELSE Dec(n \div 10) \o <<48 + (n % 10)>>

\* A gloss that is the label alone, whatever the rule captured.
RuleGloss_LabelOnly(label, groups) == label

\* f"{label}: {args}" if args else label
RuleGloss(label, groups) ==
    LET args == Join(groups) IN
    IF args # <<>> THEN label \o <<58, 32>> \o args ELSE label

\* The for loop over PATTERNS from rule k on: the gloss of the first rule
\* that matches, or the empty sequence when the loop ends without a match.
RECURSIVE DecodeRules(_, _)
DecodeRules(text, k) ==
    IF k > Len(PATTERNS) THEN <<>>
    ELSE LET m == Match(PATTERNS[k].pattern, text, 1, <<>>) IN
         IF m.ok THEN RuleGloss(PATTERNS[k].label, m.groups)
         ELSE DecodeRules(text, k + 1)

\* A decode that takes six digits for a frequency.
Fallback_SixDigits(text) ==
    IF (\A i \in 1..Len(text) : InClass("d", text[i])) /\ Len(text) >= 6
    THEN <<68, 65, 84, 65, 58, 32>> \o text \o <<32, 72, 122>>
    ELSE <<82, 65, 87, 58, 32>> \o text

\* if text.isdigit() and len(text) > 6: "DATA: {text} Hz"; else "RAW: {text}"
\* (text is not empty here).
Fallback(text) ==
    IF (\A i \in 1..Len(text) : InClass("d", text[i])) /\ Len(text) > 6
    THEN <<68, 65, 84, 65, 58, 32>> \o text \o <<32, 72, 122>>
    ELSE <<82, 65, 87, 58, 32>> \o text

\* data.decode("utf-8") succeeds. The chunks of the model hold ASCII bytes
\* and the bytes 0xfd, 0xfe and 0xff, which no UTF-8 sequence contains; an
\* ASCII byte decodes to its own code point.
IsUtf8(data) == \A i \in 1..Len(data) : data[i] < 128

\* HamlibParser.decode(data).
HamlibDecode(data) ==
    IF ~IsUtf8(data)
    THEN <<60, 66, 73, 78, 65, 82, 89, 58, 32>> \o Dec(Len(data)) \o <<32, 98, 121, 116, 101, 115, 62>>
    ELSE LET text == Strip(data)
             gloss == DecodeRules(text, 1)
         IN IF text = <<>> THEN <<60, 69, 77, 80, 84, 89, 62>>
            ELSE IF gloss # <<>> THEN gloss
            ELSE Fallback(text)

\* A PacketEvent whose connection id depends on the direction of the pipe.
PacketEvent_IdPerDirection(id, name, direction, data, semantic, conn_id) ==
    [ type |-> "packet", id |-> id, proxy_name |-> name, direction |-> direction,
      data_hex |-> data, data_str |-> DataStr(data), semantic |-> semantic,
      connection_id |-> IF direction = "RX" THEN "rx" ELSE conn_id ]

\* The dataclass PacketEvent; id stands for str(uuid.uuid4()), unique per
\* event (here the ordinal of the event). data_hex holds the chunk itself,
\* which data.hex(' ') renders one to one. timestamp is read by no operation
\* of the core and is left out.
PacketEvent(id, name, direction, data, semantic, conn_id) ==
    [ type |-> "packet", id |-> id, proxy_name |-> name, direction |-> direction,
      data_hex |-> data, data_str |-> DataStr(data), semantic |-> semantic,
      connection_id |-> conn_id ]

\* A bounded log that refuses the new entry at capacity instead of dropping
\* the oldest.
DequeAppend_DropNewest(log, e) ==
    IF Len(log) >= PacketLogMaxlen THEN log ELSE Append(log, e)

\* deque(maxlen=PacketLogMaxlen).append: at capacity the oldest entry goes.
DequeAppend(log, e) ==
    IF Len(log) >= PacketLogMaxlen THEN Append(Tail(log), e) ELSE Append(log, e)

\* A put that makes room by dropping the oldest item of a full queue.
PutNowait_DropOldest(items, e) ==
    IF Len(items) >= QueueMaxsize THEN Append(Tail(items), e) ELSE Append(items, e)

\* asyncio.Queue(maxsize=QueueMaxsize).put_nowait under the except
\* QueueFull: pass of broadcast: a full queue keeps its items.
PutNowait(items, e) ==
    IF Len(items) >= QueueMaxsize THEN items ELSE Append(items, e)

\* StateManager.broadcast(event): asdict(event) to every queue of subscribers.
Broadcast(e) ==
    queue' = [q \in DOMAIN queue |->
                IF q \in Range(subscribers) THEN PutNowait(queue[q], e) ELSE queue[q]]

\* log_packet without the early return for a port that has no config: the
\* event is recorded with no relay name.
LogPacket_Unchecked(port, direction, data, conn_id) ==
    LET cfg == active_proxies[port]
        event == PacketEvent(Len(logged) + 1, IF cfg = 0 THEN None ELSE obj[cfg].name,
                             direction, data, <<>>, conn_id)
    IN /\ packet_log' = DequeAppend(packet_log, event)
       /\ logged' = Append(logged, event)
       /\ Broadcast(event)

\* log_packet that appends the new event and broadcasts the oldest entry of
\* the log.
LogPacket_BroadcastsOldest(port, direction, data, conn_id) ==
    LET cfg == active_proxies[port] IN
    IF cfg = 0
    THEN UNCHANGED <<packet_log, queue, logged>>
    ELSE LET semantic == IF obj[cfg].protocol = "hamlib" THEN HamlibDecode(data)
                         ELSE <<>>
             event == PacketEvent(Len(logged) + 1, obj[cfg].name, direction, data,
                                  semantic, conn_id)
         IN /\ packet_log' = DequeAppend(packet_log, event)
            /\ logged' = Append(logged, event)
            /\ Broadcast(DequeAppend(packet_log, event)[1])

\* StateManager.log_packet(proxy_port, direction, data, conn_id).
LogPacket(port, direction, data, conn_id) ==
    LET cfg == active_proxies[port] IN
    IF cfg = 0
    THEN UNCHANGED <<packet_log, queue, logged>>
    ELSE LET semantic == IF obj[cfg].protocol = "hamlib" THEN HamlibDecode(data)
                         ELSE <<>>
             event == PacketEvent(Len(logged) + 1, obj[cfg].name, direction, data,
                                  semantic, conn_id)
         IN /\ packet_log' = DequeAppend(packet_log, event)
            /\ logged' = Append(logged, event)
            /\ Broadcast(event)

\* log_packet as a pipe calls it, with the chunk it has read.
LogPacketCall(port, direction, data, conn_id) ==
    /\ Len(logged) < MaxEvents
    /\ LogPacket(port, direction, data, conn_id)
    /\ UNCHANGED <<subscribers, history, notBus>>

\* StateManager.subscribe(): a new asyncio.Queue(maxsize=QueueMaxsize).
Subscribe ==
    /\ Len(queue) < MaxQueues
    /\ queue' = Append(queue, <<>>)
    /\ subscribers' = Append(subscribers, Len(queue) + 1)
    /\ UNCHANGED <<packet_log, logged, history, notBus>>

\* An unsubscribe that drops the oldest subscriber, whichever queue is named.
UnsubscribeList_DropFirst(subs, q) == IF subs = <<>> THEN subs ELSE Tail(subs)

\* if q in self.subscribers: self.subscribers.remove(q)
UnsubscribeList(subs, q) ==
    IF q \in Range(subs) THEN ListRemove(subs, q) ELSE subs

\* StateManager.unsubscribe(q).
Unsubscribe(q) ==
    /\ q \in 1..Len(queue)
    /\ subscribers' = UnsubscribeList(subscribers, q)
    /\ UNCHANGED <<packet_log, queue, logged, history, notBus>>

\* The owner of a queue takes its oldest item (websocket_endpoint: queue.get()).
QueueGet(q) ==
    /\ q \in 1..Len(queue)
    /\ queue[q] # <<>>
    /\ queue' = [queue EXCEPT ![q] = Tail(@)]
    /\ UNCHANGED <<packet_log, subscribers, logged, history, notBus>>

(***************************************************************************)
(* ProxyEngine: the health monitor                                         *)
(***************************************************************************)
\* str(e) of a failed probe: a refused connection, and the empty text of
\* asyncio.TimeoutError.
ErrTexts == {"refused", ""}

\* What one probe can find: (status, error_msg) as _check_proxy_health
\* computes them before it compares.
ProbeOutcomes ==
    { [status |-> "online", error_msg |-> None] }
        \cup { [status |-> "offline", error_msg |-> e] : e \in ErrTexts }

\* The dataclass StatusEvent.
StatusEvent(port, status, error_msg) ==
    [ type |-> "status", local_port |-> port, status |-> status, error_msg |-> error_msg ]

\* A health check that looks at the status alone.
StateChanged_StatusOnly(cfg, status, error_msg) == cfg.status # status

\* A health check that reports every probe.
StateChanged_Always(cfg, status, error_msg) == TRUE

\* if proxy.config.status != status or proxy.config.error_msg != error_msg
StateChanged(cfg, status, error_msg) ==
    cfg.status # status \/ cfg.error_msg # error_msg

\* start_monitor(): create the _monitor_loop task unless one is recorded.
StartMonitor ==
    /\ IF monitor_task = 0
       THEN /\ Len(mon) < MaxTasks
            /\ mon' = Append(mon, [pc |-> "start", idx |-> 0, proxy |-> 0])
            /\ monitor_task' = Len(mon) + 1
       ELSE UNCHANGED <<monitor_task, mon>>
    /\ UNCHANGED <<statusEvents, lastProbe, engineVars, histVars, busVars, history, connVars, lifeVars>>

\* The for loop of _monitor_loop asks the list iterator for its next item:
\* with idx items taken and more in engine.proxies, _check_proxy_health
\* starts on proxies[idx] and suspends in open_connection; with none left
\* the loop suspends in sleep(5).
MonAdvance(task, idx) ==
    IF idx < Len(proxies)
    THEN [pc |-> "probe", idx |-> idx + 1, proxy |-> proxies[idx + 1]]
    ELSE [pc |-> "sleep", idx |-> idx, proxy |-> 0]

\* A created task runs for the first time, or sleep(5) is over (the one of
\* the try body or the one of except Exception): the while loop starts a
\* new for loop over engine.proxies.
MonIterate(t) ==
    /\ t \in 1..Len(mon)
    /\ mon[t].pc \in {"start", "sleep", "caught"}
    /\ t \notin cancelled
    /\ mon' = [mon EXCEPT ![t] = MonAdvance(mon[t], 0)]
    /\ UNCHANGED <<monitor_task, statusEvents, lastProbe, engineVars, histVars, busVars, history, connVars, lifeVars>>

\* A _monitor_loop whose except Exception branch leaves the loop.
MonRaises_EndsLoop(t) ==
    /\ t \in 1..Len(mon)
    /\ mon[t].pc = "probe"
    /\ t \notin cancelled
    /\ mon' = [mon EXCEPT ![t] = [pc |-> "done", idx |-> 0, proxy |-> 0]]
    /\ UNCHANGED <<monitor_task, statusEvents, lastProbe, engineVars, histVars, busVars, history, connVars, lifeVars>>

\* An exception other than CancelledError leaves _check_proxy_health: the
\* for loop is abandoned, except Exception logs it and suspends in its own
\* sleep(5). The config and the queues are as the probe found them.
MonRaises(t) ==
    /\ t \in 1..Len(mon)
    /\ mon[t].pc = "probe"
    /\ t \notin cancelled
    /\ mon' = [mon EXCEPT ![t] = [pc |-> "caught", idx |-> 0, proxy |-> 0]]
    /\ UNCHANGED <<monitor_task, statusEvents, lastProbe, engineVars, histVars, busVars, history, connVars, lifeVars>>

\* A health check that also appends the StatusEvent it broadcasts to
\* packet_log.
ProbeFinish_Logged(t, out) ==
    /\ t \in 1..Len(mon)
    /\ mon[t].pc = "probe"
    /\ t \notin cancelled
    /\ LET id == mon[t].proxy
           cfg == obj[id]
           event == StatusEvent(cfg.local_port, out.status, out.error_msg)
       IN /\ IF StateChanged(cfg, out.status, out.error_msg)
             THEN /\ Len(statusEvents) < MaxStatusEvents
                  /\ obj' = [obj EXCEPT ![id].status = out.status,
                                        ![id].error_msg = out.error_msg]
                  /\ Broadcast(event)
                  /\ packet_log' = DequeAppend(packet_log, event)
                  /\ statusEvents' = Append(statusEvents, [proxy |-> id, event |-> event])
             ELSE UNCHANGED <<obj, queue, statusEvents, packet_log>>
          /\ lastProbe' = [proxy |-> id, status |-> out.status, error_msg |-> out.error_msg]
    /\ mon' = [mon EXCEPT ![t] = MonAdvance(mon[t], mon[t].idx)]
    /\ UNCHANGED <<monitor_task, proxies, active_proxies, starting, closing, stopAll,
                   histVars, subscribers, logged, history, connVars, lifeVars>>

\* A health check that stops the listener of a relay it finds offline.
ProbeFinish_OfflineCloses(t, out) ==
    /\ t \in 1..Len(mon)
    /\ mon[t].pc = "probe"
    /\ t \notin cancelled
    /\ LET id == mon[t].proxy
           cfg == obj[id]
           event == StatusEvent(cfg.local_port, out.status, out.error_msg)
           srv == IF out.status = "offline" THEN "closed" ELSE cfg.server
       IN /\ IF StateChanged(cfg, out.status, out.error_msg)
             THEN /\ Len(statusEvents) < MaxStatusEvents
                  /\ obj' = [obj EXCEPT ![id].status = out.status,
                                        ![id].error_msg = out.error_msg,
                                        ![id].server = srv]
                  /\ Broadcast(event)
                  /\ statusEvents' = Append(statusEvents, [proxy |-> id, event |-> event])
             ELSE UNCHANGED <<obj, queue, statusEvents>>
          /\ lastProbe' = [proxy |-> id, status |-> out.status, error_msg |-> out.error_msg]
    /\ mon' = [mon EXCEPT ![t] = MonAdvance(mon[t], mon[t].idx)]
    /\ UNCHANGED <<monitor_task, proxies, active_proxies, starting, closing, stopAll,
                   histVars, packet_log, subscribers, logged, history, connVars, lifeVars>>

\* A health check that records the new status and leaves the error text.
ProbeFinish_KeepsError(t, out) ==
    /\ t \in 1..Len(mon)
    /\ mon[t].pc = "probe"
    /\ t \notin cancelled
    /\ LET id == mon[t].proxy
           cfg == obj[id]
           event == StatusEvent(cfg.local_port, out.status, out.error_msg)
       IN /\ IF StateChanged(cfg, out.status, out.error_msg)
             THEN /\ Len(statusEvents) < MaxStatusEvents
                  /\ obj' = [obj EXCEPT ![id].status = out.status]
                  /\ Broadcast(event)
                  /\ statusEvents' = Append(statusEvents, [proxy |-> id, event |-> event])
             ELSE UNCHANGED <<obj, queue, statusEvents>>
          /\ lastProbe' = [proxy |-> id, status |-> out.status, error_msg |-> out.error_msg]
    /\ mon' = [mon EXCEPT ![t] = MonAdvance(mon[t], mon[t].idx)]
    /\ UNCHANGED <<monitor_task, proxies, active_proxies, starting, closing, stopAll,
                   histVars, packet_log, subscribers, logged, history, connVars, lifeVars>>

\* The probe of _check_proxy_health is over with outcome out: compare with
\* the config, record and broadcast on a change; then the for loop goes on.
ProbeFinish(t, out) ==
    /\ t \in 1..Len(mon)
    /\ mon[t].pc = "probe"
    /\ t \notin cancelled
    /\ LET id == mon[t].proxy
           cfg == obj[id]
           event == StatusEvent(cfg.local_port, out.status, out.error_msg)
       IN /\ IF StateChanged(cfg, out.status, out.error_msg)
             THEN /\ Len(statusEvents) < MaxStatusEvents
                  /\ obj' = [obj EXCEPT ![id].status = out.status,
                                        ![id].error_msg = out.error_msg]
                  /\ Broadcast(event)
                  /\ statusEvents' = Append(statusEvents, [proxy |-> id, event |-> event])
             ELSE UNCHANGED <<obj, queue, statusEvents>>
          /\ lastProbe' = [proxy |-> id, status |-> out.status, error_msg |-> out.error_msg]
    /\ mon' = [mon EXCEPT ![t] = MonAdvance(mon[t], mon[t].idx)]
    /\ UNCHANGED <<monitor_task, proxies, active_proxies, starting, closing, stopAll,
                   histVars, packet_log, subscribers, logged, history, connVars, lifeVars>>

(***************************************************************************)
(* ProxyEngine.stop_monitor and shutdown                                   *)
(***************************************************************************)
\* The _monitor_loop task recorded in _monitor_task has not ended.
MonitorLive == monitor_task # 0 /\ mon[monitor_task].pc # "done"

\* A cancelled _monitor_loop task runs: CancelledError is raised at its
\* await (or before its first step) and the task ends, by the break of
\* except asyncio.CancelledError or as a cancelled task.
MonCancelled(t) ==
    /\ t \in cancelled
    /\ mon[t].pc # "done"
    /\ mon' = [mon EXCEPT ![t] = [pc |-> "done", idx |-> 0, proxy |-> 0]]
    /\ cancelled' = cancelled \ {t}
    /\ UNCHANGED <<monitor_task, statusEvents, lastProbe, stopWait,
                   engineVars, histVars, busVars, history, connVars>>

\* stop_monitor() by caller s. No task recorded: return. A task that has
\* ended: cancel() does nothing, the await returns at once, _monitor_task =
\* None. A running task: cancel() and suspend in await self._monitor_task.
StopMonitorBegin(s) ==
    /\ stopWait[s] = 0
    /\ IF MonitorLive
       THEN /\ cancelled' = cancelled \cup {monitor_task}
            /\ stopWait' = [stopWait EXCEPT ![s] = monitor_task]
            /\ UNCHANGED <<monitor_task, ret>>
       ELSE /\ monitor_task' = 0
            /\ ret' = [op |-> "stop_monitor", port |-> 0, res |-> "ok"]
            /\ UNCHANGED <<cancelled, stopWait>>
    /\ UNCHANGED <<mon, statusEvents, lastProbe, engineVars, nRemoveOK,
                   busVars, history, connVars>>

\* The awaited task has ended: _monitor_task = None, whatever it holds now.
StopMonitorFinish(s) ==
    /\ stopWait[s] # 0
    /\ mon[stopWait[s]].pc = "done"
    /\ monitor_task' = 0
    /\ stopWait' = [stopWait EXCEPT ![s] = 0]
    /\ ret' = [op |-> "stop_monitor", port |-> 0, res |-> "ok"]
    /\ UNCHANGED <<mon, statusEvents, lastProbe, cancelled, engineVars, nRemoveOK,
                   busVars, history, connVars>>

\* shutdown(): await stop_monitor(), then await stop_all_proxies(). With no
\* running task recorded, stop_monitor does not suspend and stop_all_proxies
\* starts in the same step.
ShutdownBegin ==
    /\ stopWait["shutdown"] = 0
    /\ stopAll.state = "idle"
    /\ IF MonitorLive
       THEN /\ cancelled' = cancelled \cup {monitor_task}
            /\ stopWait' = [stopWait EXCEPT !["shutdown"] = monitor_task]
            /\ UNCHANGED <<monitor_task, ret, stopAll>>
       ELSE /\ monitor_task' = 0
            /\ StopAllEnter("shutdown")
            /\ UNCHANGED <<cancelled, stopWait>>
    /\ UNCHANGED <<mon, statusEvents, lastProbe, obj, proxies, active_proxies,
                   starting, closing, nRemoveOK, busVars, history, connVars>>

\* The stop_monitor of shutdown resumes: _monitor_task = None, then
\* stop_all_proxies.
ShutdownStopped ==
    /\ stopWait["shutdown"] # 0
    /\ mon[stopWait["shutdown"]].pc = "done"
    /\ stopAll.state = "idle"
    /\ monitor_task' = 0
    /\ stopWait' = [stopWait EXCEPT !["shutdown"] = 0]
    /\ StopAllEnter("shutdown")
    /\ UNCHANGED <<mon, statusEvents, lastProbe, cancelled, obj, proxies,
                   active_proxies, starting, closing, nRemoveOK, busVars, history,
                   connVars>>

(***************************************************************************)
(* app.py: the history endpoints                                           *)
(***************************************************************************)
\* Python's s[-limit:]: the start index -limit counts from the end when it
\* is negative and is clamped to 0..len(s); -0 is 0, the whole list.
SliceFromMinus(s, limit) ==
    LET n == Len(s)
        start == IF -limit < 0 THEN (IF n - limit < 0 THEN 0 ELSE n - limit)
                 ELSE (IF -limit > n THEN n ELSE -limit)
    IN SubSeq(s, start + 1, n)

\* [h for h in history if h.proxy_name == proxy_name]
RECURSIVE FilterName(_, _)
FilterName(s, name) ==
    IF s = <<>> THEN <<>>
    ELSE IF Head(s).proxy_name = name THEN <<Head(s)>> \o FilterName(Tail(s), name)
    ELSE FilterName(Tail(s), name)

\* get_history(limit, proxy_name): GET /api/history. if proxy_name: holds for
\* every name but None and the empty text.
GetHistory(limit, proxy_name) ==
    LET hist == IF proxy_name \notin {None, ""} THEN FilterName(packet_log, proxy_name)
                ELSE packet_log
    IN SliceFromMinus(hist, limit)

\* list_traffic_history(limit): the MCP tool.
ListTrafficHistory(limit) == SliceFromMinus(packet_log, limit)

\* A caller asks for the history.
GetHistoryCall(limit, proxy_name) ==
    /\ history' = [limit |-> limit, proxy_name |-> proxy_name,
                   result |-> GetHistory(limit, proxy_name), called |-> TRUE]
    /\ UNCHANGED <<busVars, notBus>>

ListTrafficHistoryCall(limit) ==
    /\ history' = [limit |-> limit, proxy_name |-> None,
                   result |-> ListTrafficHistory(limit), called |-> TRUE]
    /\ UNCHANGED <<busVars, notBus>>

(***************************************************************************)
(* TCPProxy.handle_client and its two pipes                                *)
(***************************************************************************)
\* A client's write reaches its reader whole; bytes the destination echoes
\* reach theirs in the pieces the destination sends them in.
\* Non-empty byte sequences a client sends on one connection.
Messages == UNION { [1..n -> Bytes] : n \in 1..MaxMsgLen }

\* A close that leaves the socket as it is.
WriterClose_Noop(sock) == sock

\* writer.close(): the transport, and with it the socket, is closed,
\* whatever its state.
WriterClose(sock) == "closed"

\* A writer that writes every chunk twice.
WriterWrite_Twice(stream, data) == stream \o data \o data

\* A writer that leaves out the last byte of every chunk.
WriterWrite_DropsLast(stream, data) == stream \o SubSeq(data, 1, Len(data) - 1)

\* writer.write(data); await writer.drain() on an open socket: the peer
\* receives the bytes after those written before.
WriterWrite(stream, data) == stream \o data

\* data = await reader.read(ChunkSize) on a non-empty buffer: the buffered
\* bytes, at most ChunkSize of them.
ReadChunk(buf) ==
    SubSeq(buf, 1, IF Len(buf) < ChunkSize THEN Len(buf) ELSE ChunkSize)

\* What ReadChunk leaves in the buffer.
AfterChunk(buf) == SubSeq(buf, Len(ReadChunk(buf)) + 1, Len(buf))

\* The listening server accepts a client and starts handle_client: conn_id
\* is drawn, then the handler suspends in asyncio.open_connection.
Accept(c, id, cid) ==
    /\ conn[c].state = "free"
    /\ id \in 1..Len(obj)
    /\ obj[id].server = "open"
    /\ conn' = [conn EXCEPT ![c] = [FreeConn EXCEPT !.state = "dial", !.proxy = id,
                                                     !.conn_id = cid, !.csock = "open"]]
    /\ UNCHANGED <<dropped, engineVars, histVars, busVars, history, monVars, lifeVars>>

\* A handler that returns on a failed dial without closing client_writer.
DialFail_KeepsClient(c) ==
    /\ conn[c].state = "dial"
    /\ conn' = [conn EXCEPT ![c].state = "done"]
    /\ UNCHANGED <<dropped, engineVars, histVars, busVars, history, monVars, lifeVars>>

\* open_connection raised: the except branch closes client_writer and
\* handle_client returns.
DialFail(c) ==
    /\ conn[c].state = "dial"
    /\ conn' = [conn EXCEPT ![c].state = "done", ![c].csock = WriterClose(@)]
    /\ UNCHANGED <<dropped, engineVars, histVars, busVars, history, monVars, lifeVars>>

\* open_connection returned: gather starts pipe(client_reader,
\* remote_writer, "TX") and pipe(remote_reader, client_writer, "RX").
DialOK(c) ==
    /\ conn[c].state = "dial"
    /\ conn' = [conn EXCEPT ![c].state = "piping", ![c].rsock = "open",
                            ![c].tx = "run", ![c].rx = "run"]
    /\ UNCHANGED <<dropped, engineVars, histVars, busVars, history, monVars, lifeVars>>

\* The client sends its byte sequence; it is buffered in client_reader.
ClientSend(c, msg) ==
    /\ conn[c].state \in {"dial", "piping"}
    /\ conn[c].csock = "open"
    /\ ~conn[c].ceof
    /\ conn[c].sent = <<>>
    /\ conn' = [conn EXCEPT ![c].sent = msg, ![c].cbuf = msg]
    /\ UNCHANGED <<dropped, engineVars, histVars, busVars, history, monVars, lifeVars>>

\* The client shuts down its sending side: client_reader reads EOF once its
\* buffer is empty. The client still receives.
ClientClose(c) ==
    /\ conn[c].state \in {"dial", "piping"}
    /\ conn[c].csock = "open"
    /\ ~conn[c].ceof
    /\ conn' = [conn EXCEPT ![c].ceof = TRUE]
    /\ UNCHANGED <<dropped, engineVars, histVars, busVars, history, monVars, lifeVars>>

\* The echoing destination sends back what it has received and not yet
\* echoed; bytes sent after the relay closed remote_writer are lost.
Echo(c) ==
    /\ conn[c].rsock = "open"
    /\ conn[c].dpend # <<>>
    /\ conn' = [conn EXCEPT ![c].dbuf = @ \o conn[c].dpend, ![c].dpend = <<>>]
    /\ UNCHANGED <<dropped, engineVars, histVars, busVars, history, monVars, lifeVars>>

\* One iteration of pipe(client_reader, remote_writer, "TX"). read returns a
\* chunk: log_packet, write, drain. read returns b"" (the client sent EOF, or
\* the RX pipe closed client_writer and with it the client socket): break,
\* and the finally closes remote_writer.
TxStep(c) ==
    LET k == conn[c]
        port == obj[k.proxy].local_port
        data == ReadChunk(k.cbuf)
        kept == active_proxies[port] # 0
    IN
    /\ k.state = "piping"
    /\ k.tx = "run"
    /\ IF k.cbuf # <<>>
       THEN /\ LogPacket(port, "TX", data, k.conn_id)
            /\ conn' = [conn EXCEPT
                   ![c].cbuf = AfterChunk(k.cbuf),
                   ![c].dgot = WriterWrite(k.dgot, data),
                   ![c].dpend = WriterWrite(k.dpend, data),
                   ![c].events = IF kept THEN Append(@, Len(logged) + 1) ELSE @]
            /\ dropped' = IF kept THEN dropped ELSE dropped + 1
       ELSE /\ k.ceof \/ k.csock = "closed"
            /\ conn' = [conn EXCEPT ![c].tx = "done", ![c].rsock = WriterClose(@)]
            /\ UNCHANGED <<dropped, packet_log, queue, logged>>
    /\ UNCHANGED <<subscribers, engineVars, histVars, history, monVars, lifeVars>>

\* One iteration of pipe(remote_reader, client_writer, "RX"). read returns
\* b"" once the TX pipe has closed remote_writer, and with it the
\* destination socket, and the buffer is empty: the finally closes
\* client_writer.
RxStep(c) ==
    LET k == conn[c]
        port == obj[k.proxy].local_port
        data == ReadChunk(k.dbuf)
        kept == active_proxies[port] # 0
    IN
    /\ k.state = "piping"
    /\ k.rx = "run"
    /\ IF k.dbuf # <<>>
       THEN /\ LogPacket(port, "RX", data, k.conn_id)
            /\ conn' = [conn EXCEPT
                   ![c].dbuf = AfterChunk(k.dbuf),
                   ![c].cout = WriterWrite(k.cout, data),
                   ![c].events = IF kept THEN Append(@, Len(logged) + 1) ELSE @]
            /\ dropped' = IF kept THEN dropped ELSE dropped + 1
       ELSE /\ k.rsock = "closed"
            /\ conn' = [conn EXCEPT ![c].rx = "done", ![c].csock = WriterClose(@)]
            /\ UNCHANGED <<dropped, packet_log, queue, logged>>
    /\ UNCHANGED <<subscribers, engineVars, histVars, history, monVars, lifeVars>>

\* Both pipes ended: gather returns and handle_client with it.
HandlerDone(c) ==
    /\ conn[c].state = "piping"
    /\ conn[c].tx = "done"
    /\ conn[c].rx = "done"
    /\ conn' = [conn EXCEPT ![c].state = "done"]
    /\ UNCHANGED <<dropped, engineVars, histVars, busVars, history, monVars, lifeVars>>

(***************************************************************************)
(* The registry: concurrent add_proxy and remove_proxy calls.       *)
(***************************************************************************)
Next ==
    \/ \E p \in Ports : AddBindFails(p)
    \/ \E p \in Ports, prof \in Profiles : AddBind(p, prof)
    \/ \E id \in 1..MaxObj : AddRegister(id)
    \/ \E p \in Ports : RemoveNotFound(p)
    \/ \E p \in Ports : RemoveBegin(p)
    \/ \E id \in 1..MaxObj : RemoveFinish(id)

Spec == Init /\ [][Next]_vars

(***************************************************************************)
(* The registry with binds that the OS may refuse.                         *)
(***************************************************************************)
NextBind ==
    \/ \E p \in Ports : AddBindFails(p)
    \/ \E p \in Ports, cause \in BindCauses : AddBindRefused(p, cause)
    \/ \E p \in Ports, prof \in Profiles : AddBind(p, prof)
    \/ \E id \in 1..MaxObj : AddRegister(id)
    \/ \E p \in Ports : RemoveNotFound(p)
    \/ \E p \in Ports : RemoveBegin(p)
    \/ \E id \in 1..MaxObj : RemoveFinish(id)

SpecBind == Init /\ [][NextBind]_vars

(***************************************************************************)
(* The event bus alone, over a registry that add_proxy has filled.         *)
(***************************************************************************)
\* limit arguments callers pass.
Limits == -2..3
\* proxy_name arguments callers pass (None: no filter).
NameFilters == {None, "", "a", "b"}
\* log_packet calls the pipes make.
LogCalls ==
    { [port |-> 1, direction |-> "TX", data |-> <<102>>, conn_id |-> "c1"],
      [port |-> 1, direction |-> "RX", data |-> <<102>>, conn_id |-> "c1"],
      [port |-> 2, direction |-> "TX", data |-> <<255, 102>>, conn_id |-> "c2"] }

\* Relay "a" on port 1, with or without relay "b" on port 2.
InitBus ==
    /\ \/ /\ obj = <<NewProxy(1, [name |-> "a", target |-> "t1", protocol |-> "raw"])>>
          /\ proxies = <<1>>
          /\ active_proxies = [p \in Ports |-> IF p = 1 THEN 1 ELSE 0]
       \/ /\ obj = <<NewProxy(1, [name |-> "a", target |-> "t1", protocol |-> "raw"]),
                     NewProxy(2, [name |-> "b", target |-> "t2", protocol |-> "hamlib"])>>
          /\ proxies = <<1, 2>>
          /\ active_proxies = [p \in Ports |-> p]
    /\ InitCalls /\ InitBusState /\ InitMonitor /\ InitConns

NextLog ==
    \/ \E c \in LogCalls : LogPacketCall(c.port, c.direction, c.data, c.conn_id)
    \/ \E limit \in Limits, name \in NameFilters : GetHistoryCall(limit, name)
    \/ \E limit \in Limits : ListTrafficHistoryCall(limit)

SpecLog == InitBus /\ [][NextLog]_vars

\* The log_packet calls of one pipe.
QueueCalls ==
    { [port |-> 1, direction |-> "TX", data |-> <<102>>, conn_id |-> "c1"] }

NextQueue ==
    \/ \E c \in QueueCalls : LogPacketCall(c.port, c.direction, c.data, c.conn_id)
    \/ Subscribe
    \/ \E q \in 1..MaxQueues : Unsubscribe(q)
    \/ \E q \in 1..MaxQueues : QueueGet(q)

SpecQueue == InitBus /\ [][NextQueue]_vars

\* The writers of the bus together: a pipe, the health monitor up to its
\* first status change, and the websocket handlers that subscribe, read and
\* leave.
\* The queues of the two websocket handlers.
WriterQueues == {1, 2}

NextWriters ==
    \/ \E c \in QueueCalls : LogPacketCall(c.port, c.direction, c.data, c.conn_id)
    \/ Subscribe /\ Len(queue) + 1 \in WriterQueues
    \/ \E q \in WriterQueues : Unsubscribe(q)
    \/ \E q \in WriterQueues : QueueGet(q)
    \/ StartMonitor /\ mon = <<>>
    \/ \E t \in 1..MaxTasks : MonIterate(t) /\ statusEvents = <<>>
    \/ \E t \in 1..MaxTasks, out \in ProbeOutcomes :
          ProbeFinish(t, out) /\ statusEvents = <<>>

SpecWriters == InitBus /\ [][NextWriters]_vars

(***************************************************************************)
(* The health monitor over a registry that changes under it.               *)
(***************************************************************************)
\* add_proxy arguments of the relays the monitor watches.
HealthProfile == [name |-> "a", target |-> "t1", protocol |-> "raw"]
\* The listen port they are added on and removed from.
HealthPorts == {1}

\* One subscriber is listening before the first relay is added.
InitHealth ==
    /\ InitEngine /\ InitCalls /\ InitMonitor /\ InitConns
    /\ packet_log = <<>>
    /\ subscribers = <<1>>
    /\ queue = << <<>> >>
    /\ logged = <<>>
    /\ history = [limit |-> 0, proxy_name |-> None, result |-> <<>>, called |-> FALSE]

NextHealth ==
    \/ \E p \in HealthPorts : AddBind(p, HealthProfile)
    \/ \E id \in 1..MaxObj : AddRegister(id)
    \/ \E p \in HealthPorts : RemoveBegin(p) /\ \A id \in 1..MaxObj : closing[id] = 0
    \/ \E id \in 1..MaxObj : RemoveFinish(id)
    \/ StartMonitor
    \/ \E t \in 1..MaxTasks : MonIterate(t)
    \/ \E t \in 1..MaxTasks, out \in ProbeOutcomes : ProbeFinish(t, out)

SpecHealth == InitHealth /\ [][NextHealth]_vars

(***************************************************************************)
(* One client of a raw relay whose destination echoes, while the relay may *)
(* be removed.                                                             *)
(***************************************************************************)
\* add_proxy arguments of the relay.
PipeProfile == [name |-> "a", target |-> "t1", protocol |-> "raw"]
\* Its listen port.
PipePorts == {1}
\* The one client connection made to it.
PipeConns == {1}

\* The relay is registered and listening; one subscriber is listening.
InitPipe ==
    /\ obj = <<NewProxy(1, PipeProfile)>>
    /\ proxies = <<1>>
    /\ active_proxies = [p \in Ports |-> IF p = 1 THEN 1 ELSE 0]
    /\ InitCalls /\ InitMonitor /\ InitConns
    /\ packet_log = <<>>
    /\ subscribers = <<1>>
    /\ queue = << <<>> >>
    /\ logged = <<>>
    /\ history = [limit |-> 0, proxy_name |-> None, result |-> <<>>, called |-> FALSE]

NextPipe ==
    \/ \E c \in PipeConns, id \in 1..MaxObj, cid \in ConnIds : Accept(c, id, cid)
    \/ \E c \in PipeConns : DialFail(c)
    \/ \E c \in PipeConns : DialOK(c)
    \/ \E c \in PipeConns, msg \in Messages : ClientSend(c, msg)
    \/ \E c \in PipeConns : ClientClose(c)
    \/ \E c \in PipeConns : Echo(c)
    \/ \E c \in PipeConns : TxStep(c)
    \/ \E c \in PipeConns : RxStep(c)
    \/ \E c \in PipeConns : HandlerDone(c)
    \/ \E p \in PipePorts : RemoveBegin(p) /\ \A id \in 1..MaxObj : closing[id] = 0
    \/ \E id \in 1..MaxObj : RemoveFinish(id)

SpecPipe == InitPipe /\ [][NextPipe]_vars

(***************************************************************************)
(* The lifecycle controls, overlapping freely, over one registered relay.  *)
(***************************************************************************)
\* The relay of HealthProfile is registered and listening on port 1.
InitLife ==
    /\ obj = <<NewProxy(1, HealthProfile)>>
    /\ proxies = <<1>>
    /\ active_proxies = [p \in Ports |-> IF p = 1 THEN 1 ELSE 0]
    /\ InitCalls /\ InitBusState /\ InitMonitor /\ InitConns

\* The destination is reachable whenever it is probed.
LifeOutcome == [status |-> "online", error_msg |-> None]

NextLife ==
    \/ StartMonitor
    \/ \E t \in 1..MaxTasks : MonIterate(t)
    \/ \E t \in 1..MaxTasks : ProbeFinish(t, LifeOutcome)
    \/ \E t \in 1..MaxTasks : MonCancelled(t)
    \/ \E s \in StopCallers : StopMonitorBegin(s)
    \/ \E s \in StopCallers : StopMonitorFinish(s)
    \/ ShutdownBegin
    \/ ShutdownStopped
    \/ \E id \in 1..MaxObj : StopAllClose(id)
    \/ StopAllFinish

SpecLife == InitLife /\ [][NextLife]_vars

(***************************************************************************)
(* The engine's calls made one after another, each begun when the one      *)
(* before has returned, while the monitor task runs between them.          *)
(***************************************************************************)
\* No add_proxy, stop_monitor, stop_all_proxies or shutdown call is suspended.
CallsIdle ==
    /\ starting = {}
    /\ stopAll.state = "idle"
    /\ \A s \in LifeCallers : stopWait[s] = 0

NextSeq ==
    \/ CallsIdle /\ \E p \in HealthPorts : AddBind(p, HealthProfile)
    \/ \E id \in 1..MaxObj : AddRegister(id)
    \/ CallsIdle /\ StartMonitor
    \/ \E t \in 1..MaxTasks : MonIterate(t)
    \/ \E t \in 1..MaxTasks : ProbeFinish(t, LifeOutcome)
    \/ \E t \in 1..MaxTasks : MonCancelled(t)
    \/ CallsIdle /\ StopMonitorBegin("s1")
    \/ StopMonitorFinish("s1")
    \/ CallsIdle /\ ShutdownBegin
    \/ ShutdownStopped
    \/ \E id \in 1..MaxObj : StopAllClose(id)
    \/ StopAllFinish

SpecSeq == Init /\ [][NextSeq]_vars

(***************************************************************************)
(* Traffic and health probes of one relay, with one subscriber and a       *)
(* reader of the history.                                                  *)
(***************************************************************************)
\* limit arguments of the history reader.
KindLimits == {1}

NextKinds ==
    \/ \E c \in QueueCalls : LogPacketCall(c.port, c.direction, c.data, c.conn_id)
    \/ StartMonitor
    \/ \E t \in 1..MaxTasks : MonIterate(t)
    \/ \E t \in 1..MaxTasks, out \in ProbeOutcomes : ProbeFinish(t, out)
    \/ \E q \in 1..MaxQueues : QueueGet(q)
    \/ \E limit \in KindLimits : GetHistoryCall(limit, None)

SpecKinds == InitPipe /\ [][NextKinds]_vars

(***************************************************************************)
(* Two clients of one relay whose destination cannot always be reached.    *)
(***************************************************************************)
\* The byte sequence each client sends.
DialMessages == { <<102>> }

NextDial ==
    \/ \E c \in Conns, id \in 1..MaxObj, cid \in ConnIds : Accept(c, id, cid)
    \/ \E c \in Conns : DialFail(c)
    \/ \E c \in Conns : DialOK(c)
    \/ \E c \in Conns, msg \in DialMessages : ClientSend(c, msg)
    \/ \E c \in Conns : ClientClose(c)
    \/ \E c \in Conns : Echo(c)
    \/ \E c \in Conns : TxStep(c)
    \/ \E c \in Conns : RxStep(c)
    \/ \E c \in Conns : HandlerDone(c)

SpecDial == InitPipe /\ [][NextDial]_vars

(***************************************************************************)
(* A monitored relay whose destination comes and goes, and a client that   *)
(* connects to it.                                                         *)
(***************************************************************************)
NextProbe ==
    \/ \E p \in HealthPorts : AddBind(p, HealthProfile)
    \/ \E id \in 1..MaxObj : AddRegister(id)
    \/ StartMonitor
    \/ \E t \in 1..MaxTasks : MonIterate(t)
    \/ \E t \in 1..MaxTasks, out \in ProbeOutcomes : ProbeFinish(t, out)
    \/ \E c \in PipeConns, id \in 1..MaxObj, cid \in ConnIds : Accept(c, id, cid)
    \/ \E c \in PipeConns : DialFail(c)

SpecProbe == InitHealth /\ [][NextProbe]_vars

(***************************************************************************)
(* The monitor over relays that come and go, with destinations that are    *)
(* steadily reachable or steadily unreachable, run by a fair event loop.    *)
(***************************************************************************)
\* The arguments add_proxy gets for each port.
ProfileOf(p) ==
    IF p = 1 THEN [name |-> "a", target |-> "t1", protocol |-> "raw"]
             ELSE [name |-> "b", target |-> "t2", protocol |-> "hamlib"]

\* Destination t1 answers, every other destination refuses the connection.
DestOutcome(target) ==
    IF target = "t1" THEN [status |-> "online", error_msg |-> None]
                     ELSE [status |-> "offline", error_msg |-> "refused"]

\* The probe of task t ends with what its destination answers.
ProbeDest(t) ==
    /\ t \in 1..Len(mon)
    /\ mon[t].pc = "probe"
    /\ ProbeFinish(t, DestOutcome(obj[mon[t].proxy].target))

\* The monitor tasks of this specification: the first one and the one a
\* start_monitor creates after a stop_monitor.
MonTasks == {1, 2}

\* The port whose relay is removed while the monitor runs.
MonRemoved == {1}

NextMon ==
    \/ \E p \in Ports : AddBind(p, ProfileOf(p)) /\ CallsIdle
    \/ \E id \in 1..MaxObj : AddRegister(id)
    \/ \E p \in MonRemoved : RemoveBegin(p) /\ \A id \in 1..MaxObj : closing[id] = 0
    \/ \E id \in 1..MaxObj : RemoveFinish(id)
    \/ StartMonitor /\ Len(mon) + 1 \in MonTasks
    \/ \E t \in MonTasks : MonIterate(t)
    \/ \E t \in MonTasks : ProbeDest(t)
    \/ \E t \in MonTasks : MonRaises(t)
    \/ \E t \in MonTasks : MonCancelled(t)
    \/ StopMonitorBegin("s1")
    \/ StopMonitorFinish("s1")

\* The event loop runs every task that is ready, and a probe that is made
\* again and again on a relay does not end in an unexpected exception every
\* time.
FairMon ==
    \A t \in MonTasks :
        /\ WF_vars(MonIterate(t))
        /\ WF_vars(MonCancelled(t))
        /\ \A id \in 1..MaxObj : SF_vars(ProbeDest(t) /\ mon[t].proxy = id)

SpecMon == Init /\ [][NextMon]_vars /\ FairMon

(***************************************************************************)
(* HamlibParser.decode as log_packet applies it to the chunks of a hamlib  *)
(* relay: one chunk is logged per behaviour.                               *)
(***************************************************************************)
\* Bytes of the chunks that are enumerated in full: "F", "f", space, "1",
\* "+", newline and 0xff.
DecodeAlphabet == {70, 102, 32, 49, 43, 10, 255}

\* The commands and responses of the parser's tests and near misses of
\* them, each also with a leading "+", a trailing newline, a leading space,
\* trailing text and a trailing 0xff.
DecodeExamples ==
    {
      <<>>,
      <<10>>,
      <<32>>,
      <<32, 49, 49, 49, 32, 49, 49, 49, 49>>,
      <<32, 49, 49, 49, 49, 49>>,
      <<32, 49, 49, 49, 49, 49, 49>>,
      <<32, 49, 49, 49, 49, 49, 49, 49>>,
      <<32, 49, 49, 49, 49, 49, 49, 49, 32>>,
      <<32, 49, 49, 49, 49, 49, 49, 49, 49>>,
      <<32, 49, 50, 51, 52, 53, 54, 55, 56, 57, 48, 49>>,
      <<32, 49, 52, 48, 55, 52, 48, 48, 48>>,
      <<32, 55>>,
      <<32, 70>>,
      <<32, 70, 9, 55>>,
      <<32, 70, 32, 49, 52, 48, 55, 52, 48, 48, 48>>,
      <<32, 76, 32, 65, 70, 32, 46>>,
      <<32, 76, 32, 65, 70, 32, 48, 46, 53>>,
      <<32, 77, 32, 85, 83, 66>>,
      <<32, 77, 32, 85, 83, 66, 32, 50, 52, 48, 48>>,
      <<32, 77, 32, 97, 95, 49, 10, 32, 50>>,
      <<32, 82, 80, 82, 84>>,
      <<32, 82, 80, 82, 84, 32, 32, 45, 49, 53>>,
      <<32, 82, 80, 82, 84, 32, 45, 53>>,
      <<32, 82, 80, 82, 84, 32, 48>>,
      <<32, 82, 80, 82, 84, 32, 49>>,
      <<32, 84, 32, 49>>,
      <<32, 84, 32, 50>>,
      <<32, 85, 78, 75, 78, 79, 87, 78, 32, 67, 79, 77, 77, 65, 78, 68>>,
      <<32, 92, 99, 104, 107, 95, 118, 102, 111>>,
      <<32, 92, 100, 117, 109, 112, 95, 99, 97, 112, 115>>,
      <<32, 92, 100, 117, 109, 112, 95, 115, 116, 97, 116, 101>>,
      <<32, 92, 103, 101, 116, 95, 112, 111, 119, 101, 114, 115, 116, 97, 116>>,
      <<32, 92, 103, 101, 116, 95, 118, 102, 111>>,
      <<32, 92, 115, 101, 116, 95, 118, 102, 111>>,
      <<32, 92, 115, 101, 116, 95, 118, 102, 111, 32, 86, 70, 79, 65>>,
      <<32, 102>>,
      <<32, 102, 114, 101, 113, 117, 101, 110, 99, 121>>,
      <<32, 108, 32, 65, 70>>,
      <<32, 109>>,
      <<32, 116>>,
      <<32, 255, 254, 253>>,
      <<43>>,
      <<43, 49, 49, 49, 32, 49, 49, 49, 49>>,
      <<43, 49, 49, 49, 49, 49>>,
      <<43, 49, 49, 49, 49, 49, 49>>,
      <<43, 49, 49, 49, 49, 49, 49, 49>>,
      <<43, 49, 49, 49, 49, 49, 49, 49, 32>>,
      <<43, 49, 49, 49, 49, 49, 49, 49, 49>>,
      <<43, 49, 50, 51, 52, 53, 54, 55, 56, 57, 48, 49>>,
      <<43, 49, 52, 48, 55, 52, 48, 48, 48>>,
      <<43, 70>>,
      <<43, 70, 9, 55>>,
      <<43, 70, 32, 49, 52, 48, 55, 52, 48, 48, 48>>,
      <<43, 76, 32, 65, 70, 32, 46>>,
      <<43, 76, 32, 65, 70, 32, 48, 46, 53>>,
      <<43, 77, 32, 85, 83, 66>>,
      <<43, 77, 32, 85, 83, 66, 32, 50, 52, 48, 48>>,
      <<43, 77, 32, 97, 95, 49, 10, 32, 50>>,
      <<43, 82, 80, 82, 84>>,
      <<43, 82, 80, 82, 84, 32, 32, 45, 49, 53>>,
      <<43, 82, 80, 82, 84, 32, 45, 53>>,
      <<43, 82, 80, 82, 84, 32, 48>>,
      <<43, 82, 80, 82, 84, 32, 49>>,
      <<43, 84, 32, 49>>,
      <<43, 84, 32, 50>>,
      <<43, 85, 78, 75, 78, 79, 87, 78, 32, 67, 79, 77, 77, 65, 78, 68>>,
      <<43, 92, 99, 104, 107, 95, 118, 102, 111>>,
      <<43, 92, 100, 117, 109, 112, 95, 99, 97, 112, 115>>,
      <<43, 92, 100, 117, 109, 112, 95, 115, 116, 97, 116, 101>>,
      <<43, 92, 103, 101, 116, 95, 112, 111, 119, 101, 114, 115, 116, 97, 116>>,
      <<43, 92, 103, 101, 116, 95, 118, 102, 111>>,
      <<43, 92, 115, 101, 116, 95, 118, 102, 111>>,
      <<43, 92, 115, 101, 116, 95, 118, 102, 111, 32, 86, 70, 79, 65>>,
      <<43, 102>>,
      <<43, 102, 114, 101, 113, 117, 101, 110, 99, 121>>,
      <<43, 108, 32, 65, 70>>,
      <<43, 109>>,
      <<43, 116>>,
      <<43, 255, 254, 253>>,
      <<49, 49, 49, 32, 49, 49, 49, 49>>,
      <<49, 49, 49, 32, 49, 49, 49, 49, 10>>,
      <<49, 49, 49, 32, 49, 49, 49, 49, 32, 55>>,
      <<49, 49, 49, 32, 49, 49, 49, 49, 255>>,
      <<49, 49, 49, 49, 49>>,
      <<49, 49, 49, 49, 49, 10>>,
      <<49, 49, 49, 49, 49, 32, 55>>,
      <<49, 49, 49, 49, 49, 49>>,
      <<49, 49, 49, 49, 49, 49, 10>>,
      <<49, 49, 49, 49, 49, 49, 32, 55>>,
      <<49, 49, 49, 49, 49, 49, 49>>,
      <<49, 49, 49, 49, 49, 49, 49, 10>>,
      <<49, 49, 49, 49, 49, 49, 49, 32>>,
      <<49, 49, 49, 49, 49, 49, 49, 32, 10>>,
      <<49, 49, 49, 49, 49, 49, 49, 32, 32, 55>>,
      <<49, 49, 49, 49, 49, 49, 49, 32, 55>>,
      <<49, 49, 49, 49, 49, 49, 49, 32, 255>>,
      <<49, 49, 49, 49, 49, 49, 49, 49>>,
      <<49, 49, 49, 49, 49, 49, 49, 49, 10>>,
      <<49, 49, 49, 49, 49, 49, 49, 49, 32, 55>>,
      <<49, 49, 49, 49, 49, 49, 49, 49, 255>>,
      <<49, 49, 49, 49, 49, 49, 49, 255>>,
      <<49, 49, 49, 49, 49, 49, 255>>,
      <<49, 49, 49, 49, 49, 255>>,
      <<49, 50, 51, 52, 53, 54, 55, 56, 57, 48, 49>>,
      <<49, 50, 51, 52, 53, 54, 55, 56, 57, 48, 49, 10>>,
      <<49, 50, 51, 52, 53, 54, 55, 56, 57, 48, 49, 32, 55>>,
      <<49, 50, 51, 52, 53, 54, 55, 56, 57, 48, 49, 255>>,
      <<49, 52, 48, 55, 52, 48, 48, 48>>,
      <<49, 52, 48, 55, 52, 48, 48, 48, 10>>,
      <<49, 52, 48, 55, 52, 48, 48, 48, 32, 55>>,
      <<49, 52, 48, 55, 52, 48, 48, 48, 255>>,
      <<70>>,
      <<70, 9, 55>>,
      <<70, 9, 55, 10>>,
      <<70, 9, 55, 32, 55>>,
      <<70, 9, 55, 255>>,
      <<70, 10>>,
      <<70, 32, 49, 52, 48, 55, 52, 48, 48, 48>>,
      <<70, 32, 49, 52, 48, 55, 52, 48, 48, 48, 10>>,
      <<70, 32, 49, 52, 48, 55, 52, 48, 48, 48, 32, 55>>,
      <<70, 32, 49, 52, 48, 55, 52, 48, 48, 48, 255>>,
      <<70, 32, 55>>,
      <<70, 255>>,
      <<76, 32, 65, 70, 32, 46>>,
      <<76, 32, 65, 70, 32, 46, 10>>,
      <<76, 32, 65, 70, 32, 46, 32, 55>>,
      <<76, 32, 65, 70, 32, 46, 255>>,
      <<76, 32, 65, 70, 32, 48, 46, 53>>,
      <<76, 32, 65, 70, 32, 48, 46, 53, 10>>,
      <<76, 32, 65, 70, 32, 48, 46, 53, 32, 55>>,
      <<76, 32, 65, 70, 32, 48, 46, 53, 255>>,
      <<77, 32, 85, 83, 66>>,
      <<77, 32, 85, 83, 66, 10>>,
      <<77, 32, 85, 83, 66, 32, 50, 52, 48, 48>>,
      <<77, 32, 85, 83, 66, 32, 50, 52, 48, 48, 10>>,
      <<77, 32, 85, 83, 66, 32, 50, 52, 48, 48, 32, 55>>,
      <<77, 32, 85, 83, 66, 32, 50, 52, 48, 48, 255>>,
      <<77, 32, 85, 83, 66, 32, 55>>,
      <<77, 32, 85, 83, 66, 255>>,
      <<77, 32, 97, 95, 49, 10, 32, 50>>,
      <<77, 32, 97, 95, 49, 10, 32, 50, 10>>,
      <<77, 32, 97, 95, 49, 10, 32, 50, 32, 55>>,
      <<77, 32, 97, 95, 49, 10, 32, 50, 255>>,
      <<82, 80, 82, 84>>,
      <<82, 80, 82, 84, 10>>,
      <<82, 80, 82, 84, 32, 32, 45, 49, 53>>,
      <<82, 80, 82, 84, 32, 32, 45, 49, 53, 10>>,
      <<82, 80, 82, 84, 32, 32, 45, 49, 53, 32, 55>>,
      <<82, 80, 82, 84, 32, 32, 45, 49, 53, 255>>,
      <<82, 80, 82, 84, 32, 45, 53>>,
      <<82, 80, 82, 84, 32, 45, 53, 10>>,
      <<82, 80, 82, 84, 32, 45, 53, 32, 55>>,
      <<82, 80, 82, 84, 32, 45, 53, 255>>,
      <<82, 80, 82, 84, 32, 48>>,
      <<82, 80, 82, 84, 32, 48, 10>>,
      <<82, 80, 82, 84, 32, 48, 32, 55>>,
      <<82, 80, 82, 84, 32, 48, 255>>,
      <<82, 80, 82, 84, 32, 49>>,
      <<82, 80, 82, 84, 32, 49, 10>>,
      <<82, 80, 82, 84, 32, 49, 32, 55>>,
      <<82, 80, 82, 84, 32, 49, 255>>,
      <<82, 80, 82, 84, 32, 55>>,
      <<82, 80, 82, 84, 255>>,
      <<84, 32, 49>>,
      <<84, 32, 49, 10>>,
      <<84, 32, 49, 32, 55>>,
      <<84, 32, 49, 255>>,
      <<84, 32, 50>>,
      <<84, 32, 50, 10>>,
      <<84, 32, 50, 32, 55>>,
      <<84, 32, 50, 255>>,
      <<85, 78, 75, 78, 79, 87, 78, 32, 67, 79, 77, 77, 65, 78, 68>>,
      <<85, 78, 75, 78, 79, 87, 78, 32, 67, 79, 77, 77, 65, 78, 68, 10>>,
      <<85, 78, 75, 78, 79, 87, 78, 32, 67, 79, 77, 77, 65, 78, 68, 32, 55>>,
      <<85, 78, 75, 78, 79, 87, 78, 32, 67, 79, 77, 77, 65, 78, 68, 255>>,
      <<92, 99, 104, 107, 95, 118, 102, 111>>,
      <<92, 99, 104, 107, 95, 118, 102, 111, 10>>,
      <<92, 99, 104, 107, 95, 118, 102, 111, 32, 55>>,
      <<92, 99, 104, 107, 95, 118, 102, 111, 255>>,
      <<92, 100, 117, 109, 112, 95, 99, 97, 112, 115>>,
      <<92, 100, 117, 109, 112, 95, 99, 97, 112, 115, 10>>,
      <<92, 100, 117, 109, 112, 95, 99, 97, 112, 115, 32, 55>>,
      <<92, 100, 117, 109, 112, 95, 99, 97, 112, 115, 255>>,
      <<92, 100, 117, 109, 112, 95, 115, 116, 97, 116, 101>>,
      <<92, 100, 117, 109, 112, 95, 115, 116, 97, 116, 101, 10>>,
      <<92, 100, 117, 109, 112, 95, 115, 116, 97, 116, 101, 32, 55>>,
      <<92, 100, 117, 109, 112, 95, 115, 116, 97, 116, 101, 255>>,
      <<92, 103, 101, 116, 95, 112, 111, 119, 101, 114, 115, 116, 97, 116>>,
      <<92, 103, 101, 116, 95, 112, 111, 119, 101, 114, 115, 116, 97, 116, 10>>,
      <<92, 103, 101, 116, 95, 112, 111, 119, 101, 114, 115, 116, 97, 116, 32, 55>>,
      <<92, 103, 101, 116, 95, 112, 111, 119, 101, 114, 115, 116, 97, 116, 255>>,
      <<92, 103, 101, 116, 95, 118, 102, 111>>,
      <<92, 103, 101, 116, 95, 118, 102, 111, 10>>,
      <<92, 103, 101, 116, 95, 118, 102, 111, 32, 55>>,
      <<92, 103, 101, 116, 95, 118, 102, 111, 255>>,
      <<92, 115, 101, 116, 95, 118, 102, 111>>,
      <<92, 115, 101, 116, 95, 118, 102, 111, 10>>,
      <<92, 115, 101, 116, 95, 118, 102, 111, 32, 55>>,
      <<92, 115, 101, 116, 95, 118, 102, 111, 32, 86, 70, 79, 65>>,
      <<92, 115, 101, 116, 95, 118, 102, 111, 32, 86, 70, 79, 65, 10>>,
      <<92, 115, 101, 116, 95, 118, 102, 111, 32, 86, 70, 79, 65, 32, 55>>,
      <<92, 115, 101, 116, 95, 118, 102, 111, 32, 86, 70, 79, 65, 255>>,
      <<92, 115, 101, 116, 95, 118, 102, 111, 255>>,
      <<102>>,
      <<102, 10>>,
      <<102, 32, 55>>,
      <<102, 114, 101, 113, 117, 101, 110, 99, 121>>,
      <<102, 114, 101, 113, 117, 101, 110, 99, 121, 10>>,
      <<102, 114, 101, 113, 117, 101, 110, 99, 121, 32, 55>>,
      <<102, 114, 101, 113, 117, 101, 110, 99, 121, 255>>,
      <<102, 255>>,
      <<108, 32, 65, 70>>,
      <<108, 32, 65, 70, 10>>,
      <<108, 32, 65, 70, 32, 55>>,
      <<108, 32, 65, 70, 255>>,
      <<109>>,
      <<109, 10>>,
      <<109, 32, 55>>,
      <<109, 255>>,
      <<116>>,
      <<116, 10>>,
      <<116, 32, 55>>,
      <<116, 255>>,
      <<255>>,
      <<255, 254, 253>>,
      <<255, 254, 253, 10>>,
      <<255, 254, 253, 32, 55>>,
      <<255, 254, 253, 255>>
    }

\* Every chunk over DecodeAlphabet of at most MaxDecodeLen bytes, and the
\* examples.
DecodeInputs ==
    UNION { [1..n -> DecodeAlphabet] : n \in 0..MaxDecodeLen } \cup DecodeExamples

\* The relay "b" of the hamlib family on port 2, and one subscriber.
InitDecode ==
    /\ obj = <<NewProxy(2, [name |-> "b", target |-> "t2", protocol |-> "hamlib"])>>
    /\ proxies = <<1>>
    /\ active_proxies = [p \in Ports |-> IF p = 2 THEN 1 ELSE 0]
    /\ InitCalls /\ InitMonitor /\ InitConns
    /\ packet_log = <<>>
    /\ subscribers = <<1>>
    /\ queue = << <<>> >>
    /\ logged = <<>>
    /\ history = [limit |-> 0, proxy_name |-> None, result |-> <<>>, called |-> FALSE]

\* A pipe of the relay reads the chunk data and calls log_packet.
DecodeCall(data) ==
    /\ logged = <<>>
    /\ LogPacketCall(2, "TX", data, "c1")

NextDecode == \E data \in DecodeInputs : DecodeCall(data)

SpecDecode == InitDecode /\ [][NextDecode]_vars

(***************************************************************************)
(* One client of a relay that is removed, or closed by shutdown, while the *)
(* connection is open.                                                     *)
(***************************************************************************)
NextClose ==
    \/ \E c \in PipeConns, id \in 1..MaxObj, cid \in ConnIds : Accept(c, id, cid)
    \/ \E c \in PipeConns : DialOK(c)
    \/ \E c \in PipeConns, msg \in DialMessages : ClientSend(c, msg)
    \/ \E c \in PipeConns : ClientClose(c)
    \/ \E c \in PipeConns : Echo(c)
    \/ \E c \in PipeConns : TxStep(c)
    \/ \E c \in PipeConns : RxStep(c)
    \/ \E c \in PipeConns : HandlerDone(c)
    \/ \E p \in PipePorts : RemoveBegin(p) /\ \A id \in 1..MaxObj : closing[id] = 0
    \/ \E id \in 1..MaxObj : RemoveFinish(id)
    \/ ShutdownBegin
    \/ \E id \in 1..MaxObj : StopAllClose(id)
    \/ StopAllFinish

SpecClose == InitPipe /\ [][NextClose]_vars

(***************************************************************************)
(* add_proxy calls that overlap stop_all_proxies or shutdown.              *)
(***************************************************************************)
NextStop ==
    \/ \E p \in Ports : AddBindFails(p)
    \/ \E p \in Ports, prof \in Profiles : AddBind(p, prof)
    \/ \E id \in 1..MaxObj : AddRegister(id)
    \/ \E p \in Ports : RemoveNotFound(p)
    \/ StopAllBegin
    \/ ShutdownBegin
    \/ \E id \in 1..MaxObj : StopAllClose(id)
    \/ StopAllFinish

SpecStop == Init /\ [][NextStop]_vars

(***************************************************************************)
(* One monitor over relays that are added and removed while it iterates,   *)
(* each add_proxy and remove_proxy call running alone.                     *)
(***************************************************************************)
NextSweep ==
    \/ \E p \in Ports :
          AddBind(p, ProfileOf(p)) /\ CallsIdle /\ \A id \in 1..MaxObj : closing[id] = 0
    \/ \E id \in 1..MaxObj : AddRegister(id)
    \/ \E p \in Ports :
          RemoveBegin(p) /\ starting = {} /\ \A id \in 1..MaxObj : closing[id] = 0
    \/ \E id \in 1..MaxObj : RemoveFinish(id)
    \/ StartMonitor /\ mon = <<>>
    \/ \E t \in 1..MaxTasks : MonIterate(t)
    \/ \E t \in 1..MaxTasks, out \in ProbeOutcomes : ProbeFinish(t, out)

SpecSweep == Init /\ [][NextSweep]_vars

(***************************************************************************)
(* A client of a relay whose port is given to another relay while the      *)
(* connection is open.                                                     *)
(***************************************************************************)
\* The relay that is added on the port once the first one is removed.
ReuseProfile == [name |-> "b", target |-> "t2", protocol |-> "hamlib"]

NextReuse ==
    \/ \E c \in PipeConns, id \in 1..MaxObj, cid \in ConnIds : Accept(c, id, cid)
    \/ \E c \in PipeConns : DialOK(c)
    \/ \E c \in PipeConns, msg \in DialMessages : ClientSend(c, msg)
    \/ \E c \in PipeConns : ClientClose(c)
    \/ \E c \in PipeConns : Echo(c)
    \/ \E c \in PipeConns : TxStep(c)
    \/ \E c \in PipeConns : RxStep(c)
    \/ \E c \in PipeConns : HandlerDone(c)
    \/ \E p \in PipePorts :
          RemoveBegin(p) /\ starting = {} /\ \A id \in 1..MaxObj : closing[id] = 0
    \/ \E id \in 1..MaxObj : RemoveFinish(id)
    \/ \E p \in PipePorts :
          AddBind(p, ReuseProfile) /\ starting = {} /\ \A id \in 1..MaxObj : closing[id] = 0
    \/ \E id \in 1..MaxObj : AddRegister(id)

SpecReuse == InitPipe /\ [][NextReuse]_vars

(***************************************************************************)
(* Properties of the registry (checked under Spec)                         *)
(***************************************************************************)
\* add_proxy calls on port p that have returned normally.
AddOKCount(p) ==
    Cardinality({ id \in 1..Len(obj) : obj[id].local_port = p /\ id \notin starting })

\* A step of an add_proxy call on port p: its bind succeeds (a new TCPProxy
\* listens on p) or it raises.
AddStepOn(p) ==
    \/ Len(obj') = Len(obj) + 1 /\ obj'[Len(obj')].local_port = p
    \/ ret' # ret /\ ret'.op = "add_proxy" /\ ret'.port = p /\ ret'.res = "OSError"

\* A remove_proxy call on port p returns or raises in this step.
RemoveReturnOn(p) ==
    /\ ret'.op = "remove_proxy" /\ ret'.port = p
    /\ \/ ret' # ret
       \/ \E id \in 1..Len(obj) : closing'[id] < closing[id]

\* No add_proxy, remove_proxy or stop_all_proxies call is in progress.
Quiescent ==
    /\ starting = {}
    /\ \A id \in 1..MaxObj : closing[id] = 0
    /\ stopAll.state = "idle"

\* C1: add_proxy on a listen port held by a live relay (a TCPProxy of
\* engine.proxies) always fails with the bind error, and the relay's entry,
\* listener and place in the live set are the same after the call as before.
C1_AddOnLivePortFails ==
    [][\A p \in Ports :
         (FindProxy(p) # 0 /\ AddStepOn(p)) =>
             /\ ret' = [op |-> "add_proxy", port |-> p, res |-> "OSError"]
             /\ UNCHANGED <<obj, proxies, active_proxies>>]_vars

\* C2: remove_proxy on a port that no live relay owns raises ValueError
\* (NotFound) and changes no state; the remove_proxy calls that succeeded on a
\* port never outnumber the add_proxy calls that succeeded on it, and once
\* they are as many every further remove_proxy on the port raises ValueError.
C2_RemoveCounted == \A p \in Ports : nRemoveOK[p] <= AddOKCount(p)

C2_RemoveStep ==
    \A p \in Ports :
        /\ (FindProxy(p) = 0 /\ RemoveReturnOn(p)) =>
               /\ ret'.res = "ValueError"
               /\ UNCHANGED <<obj, proxies, active_proxies, starting, stopAll, notEngine>>
        /\ (nRemoveOK[p] = AddOKCount(p) /\ RemoveReturnOn(p)) => ret'.res = "ValueError"

C2_RemoveIdempotent == []C2_RemoveCounted /\ [][C2_RemoveStep]_vars

\* C2 witness: on a port with one successful add_proxy and one successful
\* remove_proxy, a further remove_proxy has just raised ValueError.
C2_Witness ==
    \E p \in Ports :
        /\ AddOKCount(p) = 1 /\ nRemoveOK[p] = 1
        /\ ret = [op |-> "remove_proxy", port |-> p, res |-> "ValueError"]
        /\ Quiescent

\* C3: whenever no add_proxy, remove_proxy or stop_all_proxies call is in
\* progress, engine.proxies and active_proxies correspond one to one: each key
\* of the table is the port of exactly one proxy of the list, and every proxy
\* of the list has its own config in the table under its port.
C3_LiveSetMatchesTable ==
    Quiescent =>
        /\ \A p \in Ports :
               active_proxies[p] # 0 =>
                   Cardinality({ i \in 1..Len(proxies) : obj[proxies[i]].local_port = p }) = 1
        /\ \A i \in 1..Len(proxies) :
               active_proxies[obj[proxies[i]].local_port] = proxies[i]

(***************************************************************************)
(* Properties of the event bus (checked under SpecLog and SpecQueue)       *)
(***************************************************************************)
\* The last n entries of s.
LastN(s, n) == SubSeq(s, Len(s) - n + 1, Len(s))
Min(a, b) == IF a < b THEN a ELSE b

\* C5: for every limit a caller passes, 0 and negative integers included, a
\* history endpoint returns at most limit entries (none for a limit below 1),
\* each of them among the most recent PacketLogMaxlen events logged.
C5_AtMostLimit ==
    history.called =>
        /\ Len(history.result) <= (IF history.limit < 0 THEN 0 ELSE history.limit)
        /\ \A i \in 1..Len(history.result) :
               history.result[i] \in Range(LastN(logged, Min(PacketLogMaxlen, Len(logged))))

\* C6: packet_log never holds more than PacketLogMaxlen events and is, in
\* insertion order, the last min(PacketLogMaxlen, k) of the k events logged.
C6_LogIsRecentWindow ==
    /\ Len(packet_log) <= PacketLogMaxlen
    /\ packet_log = LastN(logged, Min(PacketLogMaxlen, Len(logged)))

\* C6 witness: more events were logged than the log holds, and it is full.
C6_Witness ==
    /\ Len(logged) > PacketLogMaxlen
    /\ Len(packet_log) = PacketLogMaxlen

\* A PacketEvent is broadcast in this step.
BroadcastStep == Len(logged') = Len(logged) + 1

\* C7: a subscriber queue never holds more than QueueMaxsize items; a
\* broadcast completes in one step, leaves a full subscriber queue as it was
\* and appends the event to every other subscriber queue.
C7_QueueBounded == \A q \in 1..Len(queue) : Len(queue[q]) <= QueueMaxsize

C7_BroadcastStep ==
    BroadcastStep =>
        \A q \in 1..Len(queue) :
            queue'[q] = IF q \notin Range(subscribers) THEN queue[q]
                        ELSE IF Len(queue[q]) = QueueMaxsize THEN queue[q]
                        ELSE Append(queue[q], logged'[Len(logged')])

C7_DropNewestPerSubscriber == []C7_QueueBounded /\ [][C7_BroadcastStep]_vars

\* C7 witness: two subscribers, one queue full and without the newest
\* event, the other holding that event.
C7_Witness ==
    \E q1, q2 \in Range(subscribers) :
        /\ logged # <<>>
        /\ Len(queue[q1]) = QueueMaxsize
        /\ logged[Len(logged)] \notin Range(queue[q1])
        /\ queue[q2] # <<>>
        /\ queue[q2][Len(queue[q2])] = logged[Len(logged)]

(***************************************************************************)
(* Properties of the health monitor (checked under SpecHealth)             *)
(***************************************************************************)
\* Task t completes a _check_proxy_health in this step.
ProbeStep(t) == t \in 1..Len(mon) /\ mon[t].pc = "probe" /\ mon'[t] # mon[t]

\* C9: a health probe broadcasts a StatusEvent if and only if the probed
\* (status, error text) pair differs from the pair in the relay's config, and
\* then records the pair; a probe that finds the recorded pair broadcasts
\* nothing and changes nothing; the first probe of a relay (status unknown)
\* always broadcasts; nothing but a probe broadcasts a StatusEvent.
C9_ProbeStep ==
    \A t \in 1..MaxTasks :
        ProbeStep(t) =>
            LET id == mon[t].proxy
                s == lastProbe'.status
                e == lastProbe'.error_msg
                event == StatusEvent(obj[id].local_port, s, e)
            IN /\ lastProbe'.proxy = id
               /\ IF obj[id].status # s \/ obj[id].error_msg # e
                  THEN /\ statusEvents' = Append(statusEvents, [proxy |-> id, event |-> event])
                       /\ obj' = [obj EXCEPT ![id].status = s, ![id].error_msg = e]
                       /\ \A q \in 1..Len(queue) :
                              queue'[q] = IF q \notin Range(subscribers) THEN queue[q]
                                          ELSE IF Len(queue[q]) = QueueMaxsize THEN queue[q]
                                          ELSE Append(queue[q], event)
                  ELSE UNCHANGED <<statusEvents, obj, queue>>
               /\ obj[id].status = "unknown" => Len(statusEvents') = Len(statusEvents) + 1
               /\ UNCHANGED <<proxies, active_proxies, packet_log, subscribers>>

C9_BroadcastIffChanged ==
    [][/\ C9_ProbeStep
       /\ statusEvents' # statusEvents => \E t \in 1..MaxTasks : ProbeStep(t)]_vars

\* C9 witness: a relay has been probed, its config holds the pair of the last
\* probe, and that probe was not its first broadcast.
C9_Witness ==
    /\ lastProbe.proxy # 0
    /\ obj[lastProbe.proxy].status = lastProbe.status
    /\ obj[lastProbe.proxy].error_msg = lastProbe.error_msg
    /\ Cardinality({ i \in 1..Len(statusEvents) : statusEvents[i].proxy = lastProbe.proxy }) >= 2

\* StatusEvents i < j with nothing between them for the same listen port.
ConsecutiveForPort(i, j) ==
    /\ i < j
    /\ statusEvents[i].event.local_port = statusEvents[j].event.local_port
    /\ \A k \in (i + 1)..(j - 1) :
           statusEvents[k].event.local_port # statusEvents[i].event.local_port

\* StatusEvents i < j with nothing between them for the same relay.
ConsecutiveForRelay(i, j) ==
    /\ i < j
    /\ statusEvents[i].proxy = statusEvents[j].proxy
    /\ \A k \in (i + 1)..(j - 1) : statusEvents[k].proxy # statusEvents[i].proxy

\* C10 as stated: a StatusEvent is emitted only when the status changes, so
\* two consecutive StatusEvents for one listen port carry different status
\* values.
C10_StatusValueChanges ==
    \A i, j \in 1..Len(statusEvents) :
        ConsecutiveForPort(i, j) =>
            statusEvents[i].event.status # statusEvents[j].event.status

\* C10 as amended: two consecutive StatusEvents for one relay differ in the
\* status or in the error text, and a probe of an offline relay that finds
\* the recorded status and error text again adds no StatusEvent.
C10_PairChanges ==
    \A i, j \in 1..Len(statusEvents) :
        ConsecutiveForRelay(i, j) =>
            \/ statusEvents[i].event.status # statusEvents[j].event.status
            \/ statusEvents[i].event.error_msg # statusEvents[j].event.error_msg

C10_SteadyOfflineStep ==
    \A t \in 1..MaxTasks :
        (/\ ProbeStep(t)
         /\ obj[mon[t].proxy].status = "offline"
         /\ lastProbe'.status = "offline"
         /\ lastProbe'.error_msg = obj[mon[t].proxy].error_msg)
            => UNCHANGED <<statusEvents, queue, obj>>

C10_EventOnlyOnChange == []C10_PairChanges /\ [][C10_SteadyOfflineStep]_vars

\* C10 witness: two consecutive StatusEvents of one relay, both offline, with
\* different error texts.
C10_Witness ==
    \E i, j \in 1..Len(statusEvents) :
        /\ ConsecutiveForRelay(i, j)
        /\ statusEvents[i].event.status = "offline"
        /\ statusEvents[j].event.status = "offline"
        /\ statusEvents[i].event.error_msg # statusEvents[j].event.error_msg

(***************************************************************************)
(* Properties of a relayed connection (checked under SpecPipe)             *)
(***************************************************************************)
\* The events connection c logged in one direction, in log order.
EventsOf(c, direction) ==
    LET ids == conn[c].events
        evs == [i \in 1..Len(ids) |-> logged[ids[i]]]
    IN SelectSeq(evs, LAMBDA e : e.direction = direction)

\* The payloads of a sequence of events, joined.
RECURSIVE ConcatData(_)
ConcatData(evs) ==
    IF evs = <<>> THEN <<>> ELSE Head(evs).data_hex \o ConcatData(Tail(evs))

IsPrefix(s, t) == Len(s) <= Len(t) /\ SubSeq(t, 1, Len(s)) = s

\* The client of a raw relay has sent a byte sequence and has received as
\* many bytes back.
RoundTripDone(c) ==
    /\ conn[c].state # "free"
    /\ obj[conn[c].proxy].protocol = "raw"
    /\ conn[c].sent # <<>>
    /\ Len(conn[c].cout) >= Len(conn[c].sent)

\* The relay of connection c is in the table and no chunk went unlogged.
RegisteredThroughout(c) ==
    /\ active_proxies[obj[conn[c].proxy].local_port] = conn[c].proxy
    /\ dropped = 0

\* C4 as stated: whatever byte sequence a client sends into a registered
\* raw relay whose destination echoes, once the echo is back the client has
\* read the bytes it sent and the log holds exactly one TX event and exactly
\* one RX event of the connection, with the same connection id.
C4_RoundTripOneEventEach ==
    \A c \in Conns :
        (RoundTripDone(c) /\ RegisteredThroughout(c)) =>
            /\ conn[c].cout = conn[c].sent
            /\ Len(EventsOf(c, "TX")) = 1
            /\ Len(EventsOf(c, "RX")) = 1
            /\ EventsOf(c, "TX")[1].connection_id = EventsOf(c, "RX")[1].connection_id

\* C4: the bytes a client has read back are always a prefix of the bytes it
\* sent. Once the echo of a non-empty sequence is back through a registered
\* raw relay, the bytes read back equal the bytes sent, the TX payloads joined
\* are the bytes sent and so are the RX payloads, every event of the connection
\* carries its connection id and the relay's name, there is one TX event per
\* chunk of at most ChunkSize bytes read from the client, and there is exactly
\* one TX and one RX event when the sequence fits one chunk, at least two of
\* each when it does not.
C4_RoundTripPerChunk ==
    \A c \in Conns :
        /\ IsPrefix(conn[c].cout, conn[c].sent)
        /\ RoundTripDone(c) => conn[c].cout = conn[c].sent
        /\ (RoundTripDone(c) /\ RegisteredThroughout(c)) =>
            LET tx == EventsOf(c, "TX")
                rx == EventsOf(c, "RX")
                n == Len(conn[c].sent)
            IN /\ ConcatData(tx) = conn[c].sent
               /\ ConcatData(rx) = conn[c].sent
               /\ \A i \in 1..Len(conn[c].events) :
                    /\ logged[conn[c].events[i]].connection_id = conn[c].conn_id
                    /\ logged[conn[c].events[i]].proxy_name = obj[conn[c].proxy].name
               /\ Len(tx) = (n + ChunkSize - 1) \div ChunkSize
               /\ \A i \in 1..Len(tx) : Len(tx[i].data_hex) \in 1..ChunkSize
               /\ \A i \in 1..Len(rx) : Len(rx[i].data_hex) \in 1..ChunkSize
               /\ n <= ChunkSize => Len(tx) = 1 /\ Len(rx) = 1
               /\ n > ChunkSize => Len(tx) >= 2 /\ Len(rx) >= 2

\* C4 witness: a sequence of two different bytes went through a registered
\* relay as one chunk each way and the client has read it back.
C4_Witness ==
    \E c \in Conns :
        /\ RoundTripDone(c) /\ RegisteredThroughout(c)
        /\ Len(conn[c].sent) = 2
        /\ conn[c].sent[1] # conn[c].sent[2]
        /\ conn[c].cout = conn[c].sent
        /\ Len(EventsOf(c, "TX")) = 1
        /\ Len(EventsOf(c, "RX")) = 1

\* A pipe of connection c reads a chunk in this step.
TxRead(c) == conn[c].tx = "run" /\ Len(conn'[c].cbuf) < Len(conn[c].cbuf)
RxRead(c) == conn[c].rx = "run" /\ Len(conn'[c].dbuf) < Len(conn[c].dbuf)

\* The listen port of connection c has no config in the table.
NoRelaySpec(c) == active_proxies[obj[conn[c].proxy].local_port] = 0

C8_PipeStep ==
    \A c \in Conns :
        /\ (TxRead(c) /\ NoRelaySpec(c)) =>
            /\ packet_log' = packet_log /\ logged' = logged
            /\ queue' = queue /\ subscribers' = subscribers
            /\ conn'[c].dgot = conn[c].dgot \o ReadChunk(conn[c].cbuf)
            /\ conn'[c].tx = "run" /\ conn'[c].rsock = "open"
        /\ (RxRead(c) /\ NoRelaySpec(c)) =>
            /\ packet_log' = packet_log /\ logged' = logged
            /\ queue' = queue /\ subscribers' = subscribers
            /\ conn'[c].cout = conn[c].cout \o ReadChunk(conn[c].dbuf)
            /\ conn'[c].rx = "run" /\ conn'[c].csock = "open"

\* C8: a pipe that reads a chunk while its listen port has no config in the
\* table leaves the event log and every subscriber queue as they were, writes
\* the chunk to the other side and keeps running.
C8_UnregisteredPortDropsSilently == [][C8_PipeStep]_vars

\* C8 witness: the relay was removed before the pipes read anything; the
\* whole sequence went to the destination and back, the log and the
\* subscriber's queue are empty.
C8_Witness ==
    \E c \in Conns :
        /\ conn[c].sent # <<>>
        /\ conn[c].cout = conn[c].sent
        /\ dropped >= 2
        /\ logged = <<>> /\ packet_log = <<>>
        /\ \A q \in 1..Len(queue) : queue[q] = <<>>
        /\ subscribers # <<>>

(***************************************************************************)
(* Properties of the lifecycle controls (checked under SpecLife)           *)
(***************************************************************************)
\* The _monitor_loop tasks that are running: created, not ended, and with no
\* cancellation on its way to them.
RunningMonitors == { t \in 1..Len(mon) : mon[t].pc # "done" /\ t \notin cancelled }

\* C12: in every reachable state at most one _monitor_loop task is running,
\* whatever start_monitor, stop_monitor and shutdown calls have overlapped.
C12_AtMostOneMonitor == Cardinality(RunningMonitors) <= 1

(***************************************************************************)
(* Properties of calls made one after another (checked under SpecSeq)      *)
(***************************************************************************)
\* The state shutdown leaves: no monitor task recorded or alive, every
\* listener closed, empty list, empty table.
ShutDown ==
    /\ monitor_task = 0
    /\ \A t \in 1..Len(mon) : mon[t].pc = "done"
    /\ \A id \in 1..Len(obj) : obj[id].server = "closed"
    /\ proxies = <<>>
    /\ \A p \in Ports : active_proxies[p] = 0

\* The engine's state, apart from the record of the last call's outcome.
LifeState == <<obj, proxies, active_proxies, starting, closing, stopAll,
               monitor_task, mon, cancelled, stopWait>>

\* A shutdown call returns in this step.
ShutdownReturns ==
    /\ ret'.op = "shutdown"
    /\ ret' # ret \/ (stopAll.state = "gather" /\ stopAll'.state = "idle")

C11_ShutdownStep ==
    /\ ShutdownReturns => ShutDown'
    /\ (ShutDown /\ ShutdownReturns) => LifeState' = LifeState

\* Every start_monitor, stop_monitor and shutdown call that returned did so
\* normally.
C11_NoError ==
    ret.op \in {"start_monitor", "stop_monitor", "shutdown", "stop_all_proxies"}
        => ret.res = "ok"

Without(subs, q) == SelectSeq(subs, LAMBDA r : r # q)

\* On the subscriber list of every reachable state and for every queue q:
\* unsubscribe(q) takes q out and keeps the others in order, a second
\* unsubscribe(q) changes nothing more, and unsubscribe of an absent q
\* changes nothing.
C13_UnsubscribeOnce ==
    \A q \in 1..Len(queue) :
        LET once == UnsubscribeList(subscribers, q) IN
        /\ once = Without(subscribers, q)
        /\ UnsubscribeList(once, q) = once
        /\ q \notin Range(subscribers) => once = subscribers

C13_Step ==
    /\ Len(subscribers') < Len(subscribers) =>
        /\ \E q \in Range(subscribers) : subscribers' = Without(subscribers, q)
        /\ queue' = queue
        /\ packet_log' = packet_log
    /\ BroadcastStep =>
        \A q \in 1..Len(queue) : q \notin Range(subscribers) => queue'[q] = queue[q]

\* C13: unsubscribe(q) removes q if it is subscribed and does nothing if it
\* is not, so doing it twice is doing it once; it leaves every other
\* subscriber and every queue's contents as they were; a broadcast adds
\* nothing to a queue that is not subscribed.
C13_UnsubscribeIdempotent == []C13_UnsubscribeOnce /\ [][C13_Step]_vars

\* C13 witness: of two queues created by subscribe, the first was
\* unsubscribed and has not received the newest event; the second, still
\* subscribed, has.
C13_Witness ==
    /\ Len(queue) >= 2
    /\ logged # <<>>
    /\ 1 \notin Range(subscribers)
    /\ 2 \in Range(subscribers)
    /\ logged[Len(logged)] \notin Range(queue[1])
    /\ logged[Len(logged)] \in Range(queue[2])

(***************************************************************************)
(* More properties of the history endpoints (checked under SpecLog)        *)
(***************************************************************************)
\* The log restricted to the events of one relay name; the whole log
\* without a filter (None, or the empty text).
Restricted(name) ==
    IF name \in {None, ""} THEN packet_log ELSE FilterName(packet_log, name)

C14_Step ==
    history' # history =>
        LET hist == Restricted(history'.proxy_name)
            n == IF history'.limit < 0 THEN 0 ELSE Min(history'.limit, Len(hist))
        IN history'.result = LastN(hist, n)

\* C14: a history endpoint called with (limit, filter) returns the last
\* limit entries, oldest first, of the log restricted to the filter's relay
\* name (all of them when there are fewer, none for a limit below 1); the
\* whole log is the one restricted when there is no filter.
C14_LastLimitOfFiltered == [][C14_Step]_vars

(***************************************************************************)
(* Properties of the two event kinds (checked under SpecKinds)             *)
(***************************************************************************)
\* Every entry of packet_log and of the last history answer is a PacketEvent.
C15_OnlyPackets ==
    /\ \A i \in 1..Len(packet_log) : packet_log[i].type = "packet"
    /\ \A i \in 1..Len(history.result) : history.result[i].type = "packet"

\* A step that broadcasts a StatusEvent leaves packet_log as it was and puts
\* the event on every subscriber queue with room.
C15_StatusStep ==
    Len(statusEvents') > Len(statusEvents) =>
        /\ packet_log' = packet_log
        /\ logged' = logged
        /\ \A q \in Range(subscribers) :
               queue'[q] = IF Len(queue[q]) = QueueMaxsize THEN queue[q]
                           ELSE Append(queue[q], statusEvents'[Len(statusEvents')].event)

\* C15: packet_log holds PacketEvents only and a history endpoint returns
\* PacketEvents only; the broadcast of a StatusEvent reaches the subscriber
\* queues and never changes packet_log.
C15_StatusEventsNotLogged == []C15_OnlyPackets /\ [][C15_StatusStep]_vars

\* C15 witness: a subscriber's queue holds a StatusEvent that was broadcast
\* after a PacketEvent was logged; the log and the history answer hold that
\* PacketEvent and no StatusEvent.
C15_Witness ==
    /\ packet_log # <<>>
    /\ history.result # <<>>
    /\ statusEvents # <<>>
    /\ \E q \in Range(subscribers) :
        \E i, j \in 1..Len(queue[q]) :
            /\ i < j
            /\ queue[q][i].type = "packet"
            /\ queue[q][j].type = "status"

(***************************************************************************)
(* Properties of a failed dial (checked under SpecDial)                    *)
(***************************************************************************)
\* handle_client of connection c returned from its except branch: the dial
\* failed.
DialFailed(c) == conn[c].state = "done" /\ conn[c].tx = "idle"

\* The events of the log that connection c produced.
ProducedBy(c) == { conn[c].events[i] : i \in 1..Len(conn[c].events) }

\* Of a connection whose dial failed: the client socket is closed, neither
\* pipe ever started, nothing went to or came from a destination, it
\* produced no event, and every event that carries its connection id was
\* produced by another connection that drew the same id.
C16_FailedConnection ==
    \A c \in Conns :
        DialFailed(c) =>
            /\ conn[c].csock = "closed"
            /\ conn[c].rx = "idle"
            /\ conn[c].events = <<>>
            /\ conn[c].dgot = <<>> /\ conn[c].cout = <<>>
            /\ \A i \in 1..Len(logged) :
                   logged[i].connection_id = conn[c].conn_id =>
                       \E d \in Conns \ {c} :
                           /\ i \in ProducedBy(d)
                           /\ conn[d].conn_id = conn[c].conn_id

\* The step in which a dial fails changes neither the relay, the list, the
\* table, the log nor a queue; a connection whose dial failed stays as it is.
C16_Step ==
    \A c \in Conns :
        /\ (conn[c].state = "dial" /\ DialFailed(c)') =>
               UNCHANGED <<obj, proxies, active_proxies, packet_log, logged, queue>>
        /\ DialFailed(c) => conn'[c] = conn[c]

\* C16: a failed dial closes the client connection, starts no pipe and logs
\* or broadcasts nothing for that connection, then or later; it leaves the
\* relay listening and registered.
C16_DialFailureIsLocal == []C16_FailedConnection /\ [][C16_Step]_vars

\* C16 witness: the dial of connection 1 failed while the relay listens;
\* connection 2 of the same relay, given the same connection id, has taken
\* its byte to the destination and back and produced a TX and an RX event.
C16_Witness ==
    /\ DialFailed(1)
    /\ obj[conn[1].proxy].server = "open"
    /\ conn[2].proxy = conn[1].proxy
    /\ conn[2].conn_id = conn[1].conn_id
    /\ conn[2].sent # <<>>
    /\ conn[2].cout = conn[2].sent
    /\ Len(conn[2].events) = 2

(***************************************************************************)
(* C17: close, remove_proxy and shutdown leave open connections alone.     *)
(***************************************************************************)
\* A step of add_proxy, remove_proxy, stop_all_proxies or shutdown.
EngineStep == engineVars' # engineVars

\* Connection c is accepted in this step.
Accepted(c) == conn[c].state = "free" /\ conn'[c].state # "free"

\* A pipe of connection c ends in this step.
TxEnds(c) == conn[c].tx = "run" /\ conn'[c].tx = "done"
RxEnds(c) == conn[c].rx = "run" /\ conn'[c].rx = "done"

C17_Step ==
    /\ EngineStep => conn' = conn
    /\ \A c \in Conns :
          /\ Accepted(c) => obj[conn'[c].proxy].server = "open"
          /\ TxEnds(c) => /\ conn[c].cbuf = <<>>
                          /\ conn[c].ceof \/ conn[c].csock = "closed"
                          /\ ~EngineStep
          /\ RxEnds(c) => /\ conn[c].dbuf = <<>>
                          /\ conn[c].rsock = "closed"
                          /\ ~EngineStep

\* A running pipe with bytes to read can always take its next iteration,
\* whatever the state of the listening server and of the registry.
C17_PipesStayEnabled ==
    \A c \in Conns :
        conn[c].state = "piping" =>
            /\ (conn[c].tx = "run" /\ conn[c].cbuf # <<>>) => ENABLED TxStep(c)
            /\ (conn[c].rx = "run" /\ conn[c].dbuf # <<>>) => ENABLED RxStep(c)

\* C17: closing a relay stops it from accepting new connections and does not
\* terminate the pipes of connections accepted before the close: no step of
\* close, remove_proxy or shutdown changes a connection, a connection is only
\* accepted by an open server, a pipe ends only when its own read returns
\* EOF, and a running pipe with pending bytes can always take its next step.
C17_CloseLeavesPipesRunning == []C17_PipesStayEnabled /\ [][C17_Step]_vars

\* The relay of connection c was closed and deregistered, and after that the
\* connection's pipes carried the whole round trip: both chunks were read
\* when the table no longer had the port.
C17_Witness ==
    \E c \in Conns :
        /\ conn[c].proxy # 0
        /\ obj[conn[c].proxy].server = "closed"
        /\ active_proxies[obj[conn[c].proxy].local_port] = 0
        /\ conn[c].sent # <<>>
        /\ conn[c].cout = conn[c].sent
        /\ dropped >= 2 * Len(conn[c].sent)

(***************************************************************************)
(* C18: after remove_proxy(p) has returned the port is closed.             *)
(***************************************************************************)
\* Some TCPProxy of o listens on port p, other than those of add_proxy calls
\* that are still in progress (st).
ListenerOpen(o, st, p) ==
    \E id \in 1..Len(o) :
        id \notin st /\ o[id].local_port = p /\ o[id].server = "open"

\* A remove_proxy(p) returns its success message in this step.
RemoveReturns(p) == nRemoveOK'[p] = nRemoveOK[p] + 1

\* A pipe of a connection accepted on port p reads a chunk in this step.
PipeReads(p) ==
    \E c \in Conns :
        /\ conn[c].state = "piping"
        /\ obj[conn[c].proxy].local_port = p
        /\ \/ conn'[c].cbuf # conn[c].cbuf /\ conn'[c].sent = conn[c].sent
           \/ conn'[c].cout # conn[c].cout

C18_Step ==
    \A p \in Ports :
        /\ RemoveReturns(p) => ~ListenerOpen(obj', starting', p)
        /\ (active_proxies[p] = 0 /\ PipeReads(p)) =>
               /\ logged' = logged
               /\ packet_log' = packet_log
               /\ queue' = queue

\* C18: when remove_proxy(p) returns, no listener is open on p (the listener
\* of an add_proxy(p) that has not returned yet aside), and while p has no
\* table entry the chunks that pipes of p read are neither logged nor
\* broadcast.
C18_ClosedIsTerminal == [][C18_Step]_vars

(***************************************************************************)
(* C19: the two pipes of a connection and the end of one of them.          *)
(***************************************************************************)
\* The destination of connection c holds bytes it has received and not yet
\* answered, and the RX pipe has already ended: the answer cannot reach the
\* client any more.
ReplyLost(c) == conn[c].rx = "done" /\ conn[c].dpend # <<>>

\* C19: the end of the TX pipe (the client sent EOF after its request) does
\* not end the RX pipe, so what the destination sends afterwards still
\* reaches the client: the RX pipe never ends while the destination has an
\* answer left to send.
C19_LoopsIndependent == \A c \in Conns : ~ReplyLost(c)

(***************************************************************************)
(* C20: an add_proxy whose bind fails.                                     *)
(***************************************************************************)
\* An add_proxy(p) call ends with an exception in this step.
AddFails(p) ==
    /\ ret' # ret
    /\ ret'.op = "add_proxy"
    /\ ret'.port = p
    /\ ret'.res # "ok"

\* What add_proxy reports when a relay of the engine listens on the port.
PortInUse == "OSError"

C20_Step ==
    \A p \in Ports :
        AddFails(p) =>
            /\ UNCHANGED <<obj, proxies, active_proxies, packet_log, logged,
                           subscribers, queue>>
            /\ ~PortBound(p) => ret'.res # PortInUse

\* C20: an add_proxy that fails at the bind leaves the list, the table, the
\* log and the queues as they were, and when the port is not held by a relay
\* of the engine it reports something else than it reports for a held port.
C20_BindFailedDistinctNoTrace == [][C20_Step]_vars

(***************************************************************************)
(* C21: what a health probe changes.                                       *)
(***************************************************************************)
C21_Step ==
    \A t \in 1..MaxTasks :
        ProbeStep(t) =>
            LET id == mon[t].proxy IN
            /\ UNCHANGED <<proxies, active_proxies, packet_log, logged, subscribers, conn>>
            /\ Len(obj') = Len(obj)
            /\ \A i \in 1..Len(obj) : i # id => obj'[i] = obj[i]
            /\ obj'[id] = [obj[id] EXCEPT !.status = obj'[id].status,
                                          !.error_msg = obj'[id].error_msg]
            /\ obj'[id].status = lastProbe'.status

\* A relay found offline still accepts a client.
C21_OfflineAccepts ==
    \A id \in 1..Len(obj), c \in PipeConns :
        (obj[id].status = "offline" /\ obj[id].server = "open" /\ conn[c].state = "free")
            => ENABLED Accept(c, id, "c1")

\* C21: a health probe changes only the status and error text of the probed
\* relay and the subscriber queues: the listener, the list, the table, the
\* log and the connections stay as they were; the relay's status is that of
\* the last probe, so a later successful probe brings it back to online; and
\* an offline relay keeps accepting clients.
C21_ProbeNeverFatal == []C21_OfflineAccepts /\ [][C21_Step]_vars

\* A relay was reported offline and later online again, it is still listed,
\* registered and listening, and a client was accepted on it.
C21_Witness ==
    \E i, j \in 1..Len(statusEvents), c \in PipeConns :
        /\ i < j
        /\ statusEvents[i].proxy = statusEvents[j].proxy
        /\ statusEvents[i].event.status = "offline"
        /\ statusEvents[j].event.status = "online"
        /\ obj[statusEvents[j].proxy].status = "online"
        /\ obj[statusEvents[j].proxy].server = "open"
        /\ statusEvents[j].proxy \in Range(proxies)
        /\ conn[c].state = "dial"
        /\ conn[c].proxy = statusEvents[j].proxy

(***************************************************************************)
(* C22: the monitor loop ends only by cancellation.                        *)
(***************************************************************************)
\* The recorded monitor task runs and no stop has cancelled it.
MonitorRunning ==
    /\ MonitorLive
    /\ monitor_task \notin cancelled

\* Relay id is in engine.proxies under a running monitor.
Monitored(id) == MonitorRunning /\ id \in Range(proxies)

\* The running monitor has a probe of relay id in flight.
Probing(id) ==
    /\ MonitorRunning
    /\ mon[monitor_task].pc = "probe"
    /\ mon[monitor_task].proxy = id

\* A monitor task ends in this step only if it was cancelled.
C22_Step ==
    \A t \in 1..Len(mon) :
        (mon[t].pc # "done" /\ mon'[t].pc = "done") => t \in cancelled

\* C22: a monitor task ends only by cancellation, never by a failed probe
\* or by an exception inside an iteration; and while the monitor runs
\* uncancelled, a relay that stays in the list is probed again and again.
C22_MonitorEndsOnlyByCancel ==
    /\ [][C22_Step]_vars
    /\ \A id \in 1..MaxObj : Monitored(id) ~> (Probing(id) \/ ~Monitored(id))

\* The running monitor probes once more a relay whose last probe failed.
C22_Witness ==
    \E id \in 1..Len(obj) :
        /\ Probing(id)
        /\ obj[id].status = "offline"
        /\ lastProbe.proxy = id
        /\ lastProbe.status = "offline"

(***************************************************************************)
(* C23: the gloss of a chunk that a rule of the table matches.             *)
(***************************************************************************)
\* The logged events of relays of the hamlib family whose chunk is UTF-8.
HamlibEvents ==
    { i \in 1..Len(logged) :
        /\ IsUtf8(logged[i].data_hex)
        /\ \E id \in 1..Len(obj) :
              obj[id].name = logged[i].proxy_name /\ obj[id].protocol = "hamlib" }

\* The rules of the table that match text.
Hits(text) == { k \in 1..Len(PATTERNS) : Match(PATTERNS[k].pattern, text, 1, <<>>).ok }

\* The captured arguments, each followed by a space but for the last.
RECURSIVE Spaced(_)
Spaced(groups) ==
    IF Len(groups) <= 1 THEN (IF groups = <<>> THEN <<>> ELSE groups[1])
    ELSE groups[1] \o <<32>> \o Spaced(Tail(groups))

\* The gloss of rule k on text.
GlossOf(k, text) ==
    LET g == Match(PATTERNS[k].pattern, text, 1, <<>>).groups IN
    IF g = <<>> THEN PATTERNS[k].label
    ELSE PATTERNS[k].label \o <<58, 32>> \o Spaced(g)

\* chunk -> gloss pairs of the parser's tests.
C23_Examples ==
    { <<<<70, 32, 49, 52, 48, 55, 52, 48, 48, 48>>, <<83, 69, 84, 32, 70, 82, 69, 81, 58, 32, 49, 52, 48, 55, 52, 48, 48, 48>>>>,
      <<<<102>>, <<71, 69, 84, 32, 70, 82, 69, 81>>>>,
      <<<<82, 80, 82, 84, 32, 48>>, <<83, 85, 67, 67, 69, 83, 83>>>>,
      <<<<82, 80, 82, 84, 32, 45, 53>>, <<69, 82, 82, 79, 82, 58, 32, 53>>>> }

\* C23: when the stripped text of a chunk matches at least one rule, the
\* gloss is that of the first matching rule in table order: the label, then
\* ": " and the captured arguments joined by single spaces when the rule
\* captured arguments, the bare label otherwise; "F 14074000" gives
\* "SET FREQ: 14074000", "f" gives "GET FREQ", "RPRT 0" gives "SUCCESS" and
\* "RPRT -5" gives "ERROR: 5".
C23_FirstRuleWins ==
    \A i \in HamlibEvents :
        LET text == Strip(logged[i].data_hex)
            hits == Hits(text)
        IN /\ hits # {} =>
                logged[i].semantic =
                    GlossOf(CHOOSE k \in hits : \A q \in hits : k <= q, text)
           /\ \A x \in C23_Examples :
                logged[i].data_hex = x[1] => logged[i].semantic = x[2]

\* The chunk "M USB 2400" was logged with the gloss "SET MODE: USB 2400".
C23_Witness ==
    \E i \in HamlibEvents :
        /\ logged[i].data_hex = <<77, 32, 85, 83, 66, 32, 50, 52, 48, 48>>
        /\ logged[i].semantic = <<83, 69, 84, 32, 77, 79, 68, 69, 58, 32, 85, 83, 66, 32, 50, 52, 48, 48>>

(***************************************************************************)
(* C24: decode returns one gloss for every chunk, chosen in a fixed order. *)
(***************************************************************************)
\* The logged events of relays of the hamlib family.
HamlibLogged ==
    { i \in 1..Len(logged) :
        \E id \in 1..Len(obj) :
            obj[id].name = logged[i].proxy_name /\ obj[id].protocol = "hamlib" }

\* text consists of decimal digits only.
AllDigits(text) == \A j \in 1..Len(text) : text[j] \in 48..57

\* chunk -> gloss pairs: the fallbacks of the parser's tests, six and seven
\* digits, blank chunks and chunks that are not UTF-8.
C24_Examples ==
    { <<<<49, 52, 48, 55, 52, 48, 48, 48>>, <<68, 65, 84, 65, 58, 32, 49, 52, 48, 55, 52, 48, 48, 48, 32, 72, 122>>>>,
      <<<<85, 78, 75, 78, 79, 87, 78, 32, 67, 79, 77, 77, 65, 78, 68>>, <<82, 65, 87, 58, 32, 85, 78, 75, 78, 79, 87, 78, 32, 67, 79, 77, 77, 65, 78, 68>>>>,
      <<<<>>, <<60, 69, 77, 80, 84, 89, 62>>>>,
      <<<<32, 10>>, <<60, 69, 77, 80, 84, 89, 62>>>>,
      <<<<255, 254, 253>>, <<60, 66, 73, 78, 65, 82, 89, 58, 32, 51, 32, 98, 121, 116, 101, 115, 62>>>>,
      <<<<49, 50, 51, 52, 53, 54, 55, 56, 57, 48, 49, 255>>, <<60, 66, 73, 78, 65, 82, 89, 58, 32, 49, 50, 32, 98, 121, 116, 101, 115, 62>>>>,
      <<<<49, 49, 49, 49, 49, 49>>, <<82, 65, 87, 58, 32, 49, 49, 49, 49, 49, 49>>>>,
      <<<<49, 49, 49, 49, 49, 49, 49>>, <<68, 65, 84, 65, 58, 32, 49, 49, 49, 49, 49, 49, 49, 32, 72, 122>>>>,
      <<<<49, 49, 49, 49, 49, 49, 49, 10>>, <<68, 65, 84, 65, 58, 32, 49, 49, 49, 49, 49, 49, 49, 32, 72, 122>>>>,
      <<<<43, 49, 49, 49, 49, 49, 49, 49>>, <<82, 65, 87, 58, 32, 43, 49, 49, 49, 49, 49, 49, 49>>>> }

\* The gloss the fixed order gives a chunk.
C24_Gloss(data) ==
    LET text == Strip(data)
        hits == Hits(text)
    IN CASE ~IsUtf8(data) ->
              <<60, 66, 73, 78, 65, 82, 89, 58, 32>> \o Dec(Len(data)) \o <<32, 98, 121, 116, 101, 115, 62>>
         [] IsUtf8(data) /\ text = <<>> ->
              <<60, 69, 77, 80, 84, 89, 62>>
         [] IsUtf8(data) /\ text # <<>> /\ hits # {} ->
              GlossOf(CHOOSE k \in hits : \A q \in hits : k <= q, text)
         [] IsUtf8(data) /\ text # <<>> /\ hits = {} /\ AllDigits(text) /\ Len(text) >= 7 ->
              <<68, 65, 84, 65, 58, 32>> \o text \o <<32, 72, 122>>
         [] OTHER ->
              <<82, 65, 87, 58, 32>> \o text

\* C24: for every chunk decode returns exactly one gloss, chosen in this
\* order: "<BINARY: n bytes>" with n the chunk length when the chunk is not
\* UTF-8; "<EMPTY>" when the stripped text is empty; the gloss of the first
\* matching rule; "DATA: {text} Hz" when no rule matches and the text is
\* seven or more digits; "RAW: {text}" otherwise.
C24_DecodeTotalFixedOrder ==
    \A i \in HamlibLogged :
        /\ logged[i].semantic = C24_Gloss(logged[i].data_hex)
        /\ \A x \in C24_Examples :
              logged[i].data_hex = x[1] => logged[i].semantic = x[2]

\* Seven digits were logged as a frequency.
C24_Witness ==
    \E i \in HamlibLogged :
        /\ logged[i].data_hex = <<49, 49, 49, 49, 49, 49, 49>>
        /\ logged[i].semantic = <<68, 65, 84, 65, 58, 32, 49, 49, 49, 49, 49, 49, 49, 32, 72, 122>>

(***************************************************************************)
(* C25: one connection id per connection.                                  *)
(***************************************************************************)
\* Every event a connection has produced carries the id the connection
\* drew when it was accepted.
C25_EventsCarryId ==
    \A c \in Conns :
        \A i \in ProducedBy(c) : logged[i].connection_id = conn[c].conn_id

\* The id of an accepted connection never changes, and a step that logs an
\* event for a connection logs it with that id.
C25_Step ==
    \A c \in Conns :
        /\ conn[c].state # "free" => conn'[c].conn_id = conn[c].conn_id
        /\ Len(conn'[c].events) > Len(conn[c].events) =>
              logged'[Len(logged')].connection_id = conn[c].conn_id

\* C25: every event one accepted connection produces, in either direction
\* and for every chunk, carries the same connection id, which is drawn once
\* when the connection is accepted; so two events with different ids never
\* come from one connection.
C25_OneIdPerConnection == []C25_EventsCarryId /\ [][C25_Step]_vars

\* A connection has produced two TX and two RX events, all with its id.
C25_Witness ==
    \E c \in Conns :
        /\ Len(EventsOf(c, "TX")) >= 2
        /\ Len(EventsOf(c, "RX")) >= 2
        /\ \A i \in ProducedBy(c) : logged[i].connection_id = conn[c].conn_id

(***************************************************************************)
(* C26: per direction, what is read is what is logged is what is written.  *)
(***************************************************************************)
\* The last event of the log after this step is a new one, of connection
\* c, with this direction and this chunk.
LogsChunk(c, direction, data) ==
    /\ Len(logged') = Len(logged) + 1
    /\ logged'[Len(logged')].direction = direction
    /\ logged'[Len(logged')].data_hex = data
    /\ logged'[Len(logged')].connection_id = conn[c].conn_id
    /\ conn'[c].events = Append(conn[c].events, Len(logged'))

\* A pipe of a registered relay that reads a chunk logs that chunk and
\* writes that chunk, in the step in which it reads it.
C26_Step ==
    \A c \in Conns :
        (conn[c].state = "piping"
            /\ active_proxies[obj[conn[c].proxy].local_port] = conn[c].proxy) =>
            /\ TxRead(c) =>
                  LET data == ReadChunk(conn[c].cbuf) IN
                  /\ data # <<>>
                  /\ conn'[c].cbuf = AfterChunk(conn[c].cbuf)
                  /\ LogsChunk(c, "TX", data)
                  /\ conn'[c].dgot = conn[c].dgot \o data
            /\ RxRead(c) =>
                  LET data == ReadChunk(conn[c].dbuf) IN
                  /\ data # <<>>
                  /\ conn'[c].dbuf = AfterChunk(conn[c].dbuf)
                  /\ LogsChunk(c, "RX", data)
                  /\ conn'[c].cout = conn[c].cout \o data
            /\ (~TxRead(c) /\ ~RxRead(c)) =>
                  /\ conn'[c].dgot = conn[c].dgot
                  /\ conn'[c].cout = conn[c].cout
                  /\ conn'[c].events = conn[c].events

\* In every state the bytes the destination has got are the TX payloads of
\* the log joined, and the bytes the client has got are the RX payloads
\* joined: no byte is with its receiver without its event in the log.
C26_WrittenIsLogged ==
    \A c \in Conns :
        (conn[c].state # "free" /\ RegisteredThroughout(c)) =>
            /\ ConcatData(EventsOf(c, "TX")) = conn[c].dgot
            /\ ConcatData(EventsOf(c, "RX")) = conn[c].cout
            /\ conn[c].dgot \o conn[c].cbuf = conn[c].sent

\* C26: for each direction of a connection whose relay stays registered,
\* the chunks logged are the non-empty chunks read and are the chunks
\* written to the other side, same bytes in the same order, and no byte is
\* written before the event recording it is in the log.
C26_ReadLoggedForwarded == []C26_WrittenIsLogged /\ [][C26_Step]_vars

\* Three bytes went to the destination and came back in two chunks each
\* way, with every chunk logged.
C26_Witness ==
    \E c \in Conns :
        /\ conn[c].state # "free"
        /\ RegisteredThroughout(c)
        /\ Len(conn[c].sent) = 3
        /\ conn[c].dgot = conn[c].sent
        /\ conn[c].cout = conn[c].sent
        /\ Len(EventsOf(c, "TX")) = 2
        /\ Len(EventsOf(c, "RX")) = 2

(***************************************************************************)
(* C27: a handler that is over has closed both sockets.                    *)
(***************************************************************************)
\* Both pipes of connection c have ended.
BothEnded(c) == conn[c].tx = "done" /\ conn[c].rx = "done"

\* C27: once both pipes of a connection have ended, the client socket and
\* the destination socket are both closed, and no handler is over with one
\* of its sockets open.
C27_EndedMeansClosed ==
    \A c \in Conns :
        /\ BothEnded(c) => conn[c].csock = "closed" /\ conn[c].rsock = "closed"
        /\ conn[c].state = "done" => conn[c].csock = "closed" /\ conn[c].rsock = "closed"

\* A handler whose pipes carried a round trip is over, with both sockets
\* closed, beside a handler that is over after a failed dial.
C27_Witness ==
    \E c, d \in Conns :
        /\ conn[c].state = "done"
        /\ BothEnded(c)
        /\ conn[c].cout # <<>>
        /\ conn[c].csock = "closed" /\ conn[c].rsock = "closed"
        /\ DialFailed(d)

(***************************************************************************)
(* C28: status and error text of a ProxyConfig.                            *)
(***************************************************************************)
\* A probe of relay id has completed.
Probed(id) == \E i \in 1..Len(statusEvents) : statusEvents[i].proxy = id

C28_Config ==
    \A id \in 1..Len(obj) :
        /\ obj[id].status \in {"unknown", "online", "offline"}
        /\ obj[id].status = "online" => obj[id].error_msg = None
        /\ obj[id].status = "offline" => obj[id].error_msg \in ErrTexts
        /\ obj[id].status = "unknown" => obj[id].error_msg = None
        /\ obj[id].status = "unknown" <=> ~Probed(id)

\* A completed probe leaves the pair it found in the config.
C28_Step ==
    \A t \in 1..MaxTasks :
        ProbeStep(t) =>
            /\ obj'[mon[t].proxy].status = lastProbe'.status
            /\ obj'[mon[t].proxy].error_msg = lastProbe'.error_msg
            /\ obj'[mon[t].proxy].status # "unknown"

\* C28: in every state the status of a config is unknown, online or
\* offline; online goes with no error text, offline with the text of the
\* failure the last probe met, unknown with no error text, and a config is
\* unknown exactly until its first probe has completed.
C28_StatusErrorInvariant == []C28_Config /\ [][C28_Step]_vars

\* A relay that was online is offline with the empty failure text.
C28_Witness ==
    \E id \in 1..Len(obj) :
        /\ obj[id].status = "offline"
        /\ obj[id].error_msg = ""
        /\ \E i \in 1..Len(statusEvents) :
              statusEvents[i].proxy = id /\ statusEvents[i].event.status = "online"

(***************************************************************************)
(* C29: log_packet appends and broadcasts in one run.                      *)
(***************************************************************************)
\* The PacketEvents of a subscriber queue are events of the log's history,
\* in the order they were logged, none twice.
C29_QueueIsSubsequence ==
    \A q \in 1..Len(queue) : \A i \in 1..Len(queue[q]) :
        LET e == queue[q][i] IN
        e.type = "packet" =>
            /\ e.id \in 1..Len(logged)
            /\ logged[e.id] = e
            /\ \A j \in (i + 1)..Len(queue[q]) :
                  queue[q][j].type = "packet" => queue[q][j].id > e.id

\* A log_packet step appends one event to the log and hands that event to
\* every subscriber queue with room; a queue changes only by losing its head
\* to its reader or by gaining one event at its end, and the PacketEvent it
\* gains is the one this step appended to the log. A new queue is empty.
C29_Step ==
    /\ BroadcastStep =>
          LET e == logged'[Len(logged')] IN
          /\ logged' = Append(logged, e)
          /\ packet_log' = DequeAppend(packet_log, e)
          /\ subscribers' = subscribers
          /\ \A q \in Range(subscribers) :
                Len(queue[q]) < QueueMaxsize => queue'[q] = Append(queue[q], e)
    /\ \A q \in 1..Len(queue') :
          LET old == IF q <= Len(queue) THEN queue[q] ELSE <<>>
              new == queue'[q]
          IN \/ new = old
             \/ old # <<>> /\ new = Tail(old)
             \/ /\ Len(new) = Len(old) + 1
                /\ SubSeq(new, 1, Len(old)) = old
                /\ q \in Range(subscribers)
                /\ new[Len(new)].type = "packet" =>
                      /\ BroadcastStep
                      /\ new[Len(new)] = logged'[Len(logged')]
                      /\ new[Len(new)] = packet_log'[Len(packet_log')]

\* C29: log_packet for a registered port appends exactly one PacketEvent to
\* the log and puts that event on every subscriber queue with room in the
\* same step, so nothing else is appended or broadcast in between; what a
\* subscriber receives is, in order and without repeats, a subsequence of
\* the events broadcast since it subscribed, and each PacketEvent in a queue
\* is in the log's history when it is put there.
C29_AppendThenBroadcastAtomic == []C29_QueueIsSubsequence /\ [][C29_Step]_vars

\* A subscriber that missed an event while its queue was full holds two
\* PacketEvents that are not consecutive, and another queue holds a status
\* event of the monitor.
C29_Witness ==
    \E q, r \in 1..Len(queue) :
        /\ q # r
        /\ Len(queue[q]) = 2
        /\ queue[q][1].type = "packet" /\ queue[q][2].type = "packet"
        /\ queue[q][2].id > queue[q][1].id + 1
        /\ queue[r] # <<>>
        /\ \E i \in 1..Len(queue[r]) : queue[r][i].type = "status"

(***************************************************************************)
(* C30: add_proxy against stop_all_proxies.                                *)
(***************************************************************************)
\* TCPProxy id listens and the add_proxy that made it has returned.
Listening(id) == id \notin starting /\ obj[id].server = "open"

\* TCPProxy id is in engine.proxies and is the config of its port's key.
Live(id) == id \in Range(proxies) /\ active_proxies[obj[id].local_port] = id

\* C30: every relay whose listener is open, once the add_proxy that created
\* it has returned, is in engine.proxies and in active_proxies, whatever
\* stop_all_proxies or shutdown call the add_proxy overlapped.
C30_ListeningIsLive == \A id \in 1..Len(obj) : Listening(id) => Live(id)

(***************************************************************************)
(* C31: the monitor against remove_proxy and add_proxy.                    *)
(***************************************************************************)
\* A StatusEvent is broadcast in this step.
StatusBroadcast == Len(statusEvents') = Len(statusEvents) + 1

\* The port of a StatusEvent is a key of active_proxies when it is broadcast.
C31_BroadcastRegistered ==
    StatusBroadcast =>
        active_proxies[statusEvents'[Len(statusEvents')].event.local_port] # 0

\* The relays the for loop of task t has yet to take from engine.proxies.
Pending(t, list) == { list[i] : i \in (mon[t].idx + 1)..Len(list) }

\* While task t is suspended in a probe, a relay it had yet to visit and
\* that stays in engine.proxies is still to be visited.
C31_NoneSkipped ==
    \A t \in 1..Len(mon) :
        mon[t].pc = "probe" /\ mon'[t] = mon[t] =>
            (Pending(t, proxies) \cap Range(proxies')) \subseteq Pending(t, proxies')

\* C31: a StatusEvent is broadcast only for a port that is in
\* active_proxies at that moment, so none for port p once remove_proxy(p)
\* completed during the probe of p; and a removal or addition during an
\* iteration of the monitor makes it skip no relay that stays registered.
C31_MonitorFollowsRegistry == [][C31_BroadcastRegistered /\ C31_NoneSkipped]_vars

\* The two halves of C31, each on its own.
C31_BroadcastOnlyRegistered == [][C31_BroadcastRegistered]_vars
C31_IterationSkipsNone == [][C31_NoneSkipped]_vars

(***************************************************************************)
(* C32: after stop_monitor has returned no monitor loop runs.              *)
(***************************************************************************)
\* A stop_monitor call (of its own or inside shutdown) reaches
\* self._monitor_task = None in this step and is over.
StopCompletes ==
    /\ monitor_task' = 0
    /\ \/ monitor_task # 0
       \/ \E s \in LifeCallers : stopWait[s] # 0 /\ stopWait'[s] = 0

\* A start_monitor call is made in this step.
StartCalled == Len(mon') = Len(mon) + 1 \/ (monitor_task' # 0 /\ monitor_task = 0)

\* When a stop_monitor completes no _monitor_loop is left running; and
\* while no task is recorded, a step that is not a start_monitor changes no
\* status or error text and broadcasts no StatusEvent.
C32_Step ==
    /\ StopCompletes => RunningMonitors' = {}
    /\ monitor_task = 0 /\ ~StartCalled =>
          /\ statusEvents' = statusEvents
          /\ \A id \in 1..Len(obj) :
                /\ obj'[id].status = obj[id].status
                /\ obj'[id].error_msg = obj[id].error_msg

\* C32: once a stop_monitor or shutdown call has completed, and until the
\* next start_monitor call, no monitor loop runs, no status or error text
\* changes and no StatusEvent is broadcast, whatever start_monitor and
\* stop_monitor calls overlapped before.
C32_StoppedMeansQuiet == [][C32_Step]_vars

(***************************************************************************)
(* C33: the name and gloss of a PacketEvent.                               *)
(***************************************************************************)
\* The gloss log_packet gives a chunk under the protocol of relay id.
GlossUnder(id, data) == IF obj[id].protocol = "hamlib" THEN HamlibDecode(data) ELSE <<>>

\* C33: every PacketEvent of a connection carries the name of the relay
\* that accepted the connection and the gloss of that relay's protocol,
\* also when that relay has been removed and another one added on its port.
C33_EventsOfAcceptingRelay ==
    \A c \in Conns :
        conn[c].state # "free" =>
            \A i \in 1..Len(conn[c].events) :
                LET e == logged[conn[c].events[i]] IN
                /\ e.proxy_name = obj[conn[c].proxy].name
                /\ e.semantic = GlossUnder(conn[c].proxy, e.data_hex)

====
